---- MODULE Spec2Model ----
(***************************************************************************)
(* VoiceActorLaboratory: the in-memory Project (src/src/project.py), the   *)
(* Recorder capture state machine (src/src/recorder.py), the file-name     *)
(* helpers (src/src/script_format.py), the Playback wrapper                *)
(* (src/src/playback.py) and the project folder (src/src/storage.py).      *)
(*                                                                         *)
(* The specifications of the module:                                       *)
(*   SpecProject  - Project.add_take / update_take_adopted /               *)
(*                  get_adopted_take over a list of takes;                 *)
(*   SpecRecorder - the control thread calling start / pause / resume /    *)
(*                  stop / save_to_wav / stop_and_save, interleaved with   *)
(*                  the capture callback thread of the open stream;        *)
(*   SpecSanitize - sanitize_for_filename, applied once and again;         *)
(*   SpecSection  - get_current_section over scripts and cursors;          *)
(*   SpecSuggest  - suggest_take_basename over a growing list of names;    *)
(*   SpecPlayback - play / pause / stop / set_speed / seek_to_position_ms; *)
(*   SpecStorage  - create_project .. delete_take on one project folder;   *)
(*   SpecAdd      - add_take_from_file with every kind of file name;       *)
(*   SpecUpdate   - update_take_meta over the take lists on disk;          *)
(*   SpecExport   - export_takes;                                          *)
(*   SpecLookup   - the operations given a project or take that is not     *)
(*                  there;                                                 *)
(*   SpecUi       - the handlers of MainWindow that drive playback         *)
(*                  (src/src/ui/main_window.py), with the player.          *)
(***************************************************************************)
EXTENDS Integers, Sequences, FiniteSets, TLC

\* ------------------------------------------------------------------ bounds
\* Longest take list built by add_take.
MaxTakes == 3
\* Take ids are drawn from 1..NumIds (add_take does not check uniqueness).
NumIds == 3
\* Audio blocks the capture callback is handed in one run.
MaxBlocks == 3
\* Capture streams sd.InputStream constructs in one run.
MaxStreams == 3
\* Frames per delivered block (blocksize=1024 in _start_stream, scaled down).
BlockLen == 2

\* Longest name handed to sanitize_for_filename.
MaxNameLen == 4
\* Most lines of a script handed to get_current_section.
MaxLines == 4
\* Longest existing_wav_filenames list handed to suggest_take_basename.
MaxNames == 3

\* Longest WAV file played, in milliseconds (scaled down).
MaxDuration == 3

\* Takes add_take_from_file creates in one run (uuids drawn).
MaxNewTakes == 2
\* Longest take_ids list handed to export_takes.
MaxExport == 2

VARIABLES
  takes,        \* Project.takes: sequence of [id, adopted]
  pcall,        \* the last Project call: op, arguments, result, takes before it
  added_adopted \* some take was handed to add_take with adopted = True

projVars == <<takes, pcall, added_adopted>>

VARIABLES
  is_recording, \* Recorder._is_recording
  is_paused,    \* Recorder._is_paused
  buffer,       \* Recorder._buffer: sequence of blocks, each a sequence of samples
  stream,       \* Recorder._stream: 0 for None, else an index into streams
  lock,         \* Recorder._lock: "free", or the thread holding it ("ctl", "cb")
  streams,      \* every sd.InputStream constructed so far, by status
  pc,           \* where the control thread is inside the method it called
  call,         \* the control thread's current (or last) call and what it saw
  cb,           \* the callback thread: "idle", "wait" (for the lock), "locked"
  cb_block,     \* indata of the callback in progress (<<>> when idle)
  cb_at,        \* the Recorder state when that block was delivered
  nblocks,      \* blocks delivered so far
  chunks,       \* save_to_wav's local copy of the buffer
  wav,          \* the file at wav_path: [exists, data]
  dir_exists,   \* wav_path's parent directory exists
  at_stop,      \* [valid, buf]: the buffer when stop() last held the lock
  at_pause,     \* the buffer when pause() last held the lock
  start_n       \* blocks delivered before start() last cleared the buffer

recVars == <<is_recording, is_paused, buffer, stream, lock, streams, pc, call,
             cb, cb_block, cb_at, nblocks, chunks, wav, dir_exists, at_stop,
             at_pause, start_n>>

VARIABLES
  sf,           \* the last script_format call: op, text, n, names, out
  existing      \* existing_wav_filenames as the caller keeps it between calls

fmtVars == <<sf, existing>>

VARIABLES
  source,        \* QMediaPlayer source: NoSource, or the duration of the file set
  loaded,        \* the player has read the source's header
  duration,      \* QMediaPlayer.duration(): 0 until the source is loaded
  position,      \* QMediaPlayer.position()
  playbackState, \* QMediaPlayer.playbackState()
  playbackRate,  \* QMediaPlayer.playbackRate()
  pbcall         \* the last Playback call: op, ms, ret

playVars == <<source, loaded, duration, position, playbackState, playbackRate,
              pbcall>>

VARIABLES
  proj_dir,      \* project_dir is a directory
  takes_dir,     \* project_dir/takes is a directory
  script_file,   \* project_dir/script.txt: [exists, text]
  meta_file,     \* project_dir/project_meta.json: [kind, takes]
  wav_files,     \* the names of the files in project_dir/takes
  uuids,         \* uuid4 values drawn so far
  scall          \* the last storage call: op, arguments, result

stoVars == <<proj_dir, takes_dir, script_file, meta_file, wav_files, uuids,
             scall>>

VARIABLES
  ui             \* the playback fields of MainWindow: _playing_take_id,
                 \* _loaded_take_id, the position timer, the position marker
                 \* of the playback waveform, _playback_duration_seconds,
                 \* _last_playback_was_playing; and the last handler run

uiVars == <<ui>>

VARIABLES
  app            \* MainWindow._project as the take handlers keep it: it has a
                 \* project_dir, its takes; Recorder.is_recording as the
                 \* window sees it; and the last take handler run, the
                 \* result of its stop_and_save, the take it was about

appVars == <<app>>

vars == <<projVars, recVars, fmtVars, playVars, stoVars, uiVars, appVars>>

\* What each component leaves alone.
notProjVars == <<recVars, fmtVars, playVars, stoVars, uiVars, appVars>>
notRecVars == <<projVars, fmtVars, playVars, stoVars, uiVars, appVars>>
notFmtVars == <<projVars, recVars, playVars, stoVars, uiVars, appVars>>
notPlayVars == <<projVars, recVars, fmtVars, stoVars, uiVars, appVars>>
notStoVars == <<projVars, recVars, fmtVars, playVars, uiVars, appVars>>
\* The handlers of MainWindow drive the player as well.
notUiVars == <<projVars, recVars, fmtVars, stoVars, appVars>>
\* The take handlers write the project folder, and reset the playback views.
notAppVars == <<projVars, recVars, fmtVars>>

\* ------------------------------------------------------------- Project
TakeIds == 1..NumIds

\* TakeInfo, reduced to the fields update_take_adopted reads and writes.
TakeInfo(id, adopted) == [id |-> id, adopted |-> adopted]

\* Index of the first take with this id, 0 when there is none (None).
get_take(ts, take_id) ==
  IF \E i \in 1..Len(ts) : ts[i].id = take_id
  THEN CHOOSE i \in 1..Len(ts) :
         /\ ts[i].id = take_id
         /\ \A j \in 1..(i - 1) : ts[j].id # take_id
  ELSE 0

\* A plausible slip: adopted=True sets the target and leaves the others alone.
update_take_adopted_target_only(ts, take_id, adopted) ==
  LET t == get_take(ts, take_id) IN
  IF t = 0 THEN ts ELSE [ts EXCEPT ![t].adopted = adopted]

\* The take list after update_take_adopted(take_id, adopted).
update_take_adopted(ts, take_id, adopted) ==
  LET t == get_take(ts, take_id) IN
  IF t = 0 THEN ts
  ELSE IF adopted
       THEN [i \in 1..Len(ts) |-> [ts[i] EXCEPT !.adopted = (ts[i].id = take_id)]]
       ELSE [ts EXCEPT ![t].adopted = FALSE]

\* The value update_take_adopted returns.
update_take_adopted_result(ts, take_id) == get_take(ts, take_id) # 0

\* Index of the first adopted take, 0 when there is none (None).
get_adopted_take(ts) ==
  IF \E i \in 1..Len(ts) : ts[i].adopted
  THEN CHOOSE i \in 1..Len(ts) :
         /\ ts[i].adopted
         /\ \A j \in 1..(i - 1) : ~ts[j].adopted
  ELSE 0

NoCall == [op |-> "none", id |-> 0, flag |-> FALSE, ret |-> FALSE, before |-> <<>>]

InitProject ==
  /\ takes = <<>>
  /\ pcall = NoCall
  /\ added_adopted = FALSE

\* Project.add_take(take): appends, whatever the id.
AddTake(id, adopted) ==
  /\ Len(takes) < MaxTakes
  /\ takes' = Append(takes, TakeInfo(id, adopted))
  /\ pcall' = [op |-> "add_take", id |-> id, flag |-> adopted, ret |-> TRUE,
               before |-> takes]
  /\ added_adopted' = (added_adopted \/ adopted)

\* Project.update_take_adopted(take_id, adopted).
UpdateTakeAdopted(id, adopted) ==
  /\ takes' = update_take_adopted(takes, id, adopted)
  /\ pcall' = [op |-> "update_take_adopted", id |-> id, flag |-> adopted,
               ret |-> update_take_adopted_result(takes, id), before |-> takes]
  /\ UNCHANGED added_adopted

\* ------------------------------------------------------------- Recorder
\* The three states of the specification, and the fourth the flags can encode.
StateOf(rec, paused) ==
  IF rec THEN (IF paused THEN "RecordingPaused" ELSE "Recording")
  ELSE (IF paused THEN "IdlePaused" ELSE "Idle")

RecState == StateOf(is_recording, is_paused)

\* The block the stream hands to the callback as its k-th: the samples
\* (k-1)*BlockLen+1 .. k*BlockLen, so that a sample's value is its place in
\* the order of delivery.
Block(k) == [i \in 1..BlockLen |-> (k - 1) * BlockLen + i]

\* np.concatenate(chunks, axis=0).
RECURSIVE concatenate(_)
concatenate(cs) ==
  IF cs = <<>> THEN <<>> ELSE Head(cs) \o concatenate(Tail(cs))

NoFile == [exists |-> FALSE, data |-> <<>>]

Idle0 ==
  [op |-> "none", ret |-> "none", from |-> "Idle", buf |-> <<>>, strm |-> 0,
   nstreams |-> 0, failed |-> FALSE, wav0 |-> NoFile]

InitRecorder ==
  /\ is_recording = FALSE
  /\ is_paused = FALSE
  /\ buffer = <<>>
  /\ stream = 0
  /\ lock = "free"
  /\ streams = <<>>
  /\ pc = "idle"
  /\ call = Idle0
  /\ cb = "idle"
  /\ cb_block = <<>>
  /\ cb_at = "Idle"
  /\ nblocks = 0
  /\ chunks = <<>>
  /\ wav = NoFile
  /\ dir_exists = FALSE
  /\ at_stop = [valid |-> FALSE, buf |-> <<>>]
  /\ at_pause = <<>>
  /\ start_n = 0

Ops ==
  {"start", "pause", "resume", "stop", "save_to_wav", "stop_and_save",
   "is_recording", "get_buffer_duration_seconds"}

\* The first statement of each method: all of them begin `with self._lock`.
FirstPc(op) ==
  CASE op = "start" -> "start_lock"
    [] op = "pause" -> "pause_lock"
    [] op = "resume" -> "resume_lock"
    [] op = "stop" -> "stop_lock"
    [] op = "save_to_wav" -> "save_lock"
    [] op = "stop_and_save" -> "stop_lock"
    [] op \in {"is_recording", "get_buffer_duration_seconds"} -> "get_lock"

\* The control thread calls a public method.
Call(op) ==
  /\ pc = "idle"
  /\ pc' = FirstPc(op)
  /\ call' = [op |-> op, ret |-> "none", from |-> RecState, buf |-> buffer,
              strm |-> stream, nstreams |-> Len(streams), failed |-> FALSE,
              wav0 |-> wav]
  /\ UNCHANGED <<is_recording, is_paused, buffer, stream, lock, streams, cb,
                 cb_block, cb_at, nblocks, chunks, wav, dir_exists, at_stop,
                 at_pause, start_n>>

\* `with self._lock:` entered by the control thread (blocks while the callback
\* holds the lock).
Acquire ==
  /\ pc \in {"start_lock", "pause_lock", "resume_lock", "stop_lock",
             "save_lock", "fail_lock", "get_lock"}
  /\ lock = "free"
  /\ lock' = "ctl"
  /\ pc' = CASE pc = "start_lock" -> "start_cs"
             [] pc = "pause_lock" -> "pause_cs"
             [] pc = "resume_lock" -> "resume_cs"
             [] pc = "stop_lock" -> "stop_cs"
             [] pc = "save_lock" -> "save_cs"
             [] pc = "fail_lock" -> "fail_cs"
             [] pc = "get_lock" -> "get_cs"
  /\ call' = [call EXCEPT !.buf = buffer]
  /\ UNCHANGED <<is_recording, is_paused, buffer, stream, streams, cb,
                 cb_block, cb_at, nblocks, chunks, wav, dir_exists, at_stop,
                 at_pause, start_n>>

\* A plausible slip: a paused recorder is taken for one that is not recording.
start_refuses_unless_paused(rec, paused) == rec /\ ~paused

\* start(): `if self._is_recording: return False`, read under the lock.
start_refuses(rec, paused) == rec

\* start(), the locked block: refuse, or set the flags and clear the buffer.
StartCS ==
  /\ pc = "start_cs"
  /\ lock' = "free"
  /\ IF start_refuses(is_recording, is_paused)
     THEN /\ pc' = "idle"
          /\ call' = [call EXCEPT !.ret = "false"]
          /\ UNCHANGED <<is_recording, is_paused, buffer, at_stop, start_n>>
     ELSE /\ is_recording' = TRUE
          /\ is_paused' = FALSE
          /\ buffer' = <<>>
          /\ at_stop' = [valid |-> FALSE, buf |-> <<>>]
          /\ start_n' = nblocks
          /\ pc' = "open"
          /\ UNCHANGED call
  /\ UNCHANGED <<stream, streams, cb, cb_block, cb_at, nblocks, chunks, wav,
                 dir_exists, at_pause>>

\* _start_stream(), `self._stream = sd.InputStream(**kwargs)`: the constructor
\* returns a stream, which is assigned, or raises, and nothing is assigned.
StreamOpen ==
  /\ pc = "open"
  /\ \/ /\ Len(streams) < MaxStreams
        /\ streams' = Append(streams, "opened")
        /\ stream' = Len(streams) + 1
        /\ pc' = "sstart"
        /\ UNCHANGED call
     \/ /\ pc' = "fail_lock"
        /\ call' = [call EXCEPT !.failed = TRUE]
        /\ UNCHANGED <<stream, streams>>
  /\ UNCHANGED <<is_recording, is_paused, buffer, lock, cb, cb_block, cb_at,
                 nblocks, chunks, wav, dir_exists, at_stop, at_pause,
                 start_n>>

\* _start_stream(), `self._stream.start()`: the stream starts delivering
\* blocks and the method returns True, or start() raises.
StreamStart ==
  /\ pc = "sstart"
  /\ \/ /\ streams' = [streams EXCEPT ![stream] = "active"]
        /\ pc' = "idle"
        /\ call' = [call EXCEPT !.ret = "true"]
     \/ /\ pc' = "fail_lock"
        /\ call' = [call EXCEPT !.failed = TRUE]
        /\ UNCHANGED streams
  /\ UNCHANGED <<is_recording, is_paused, buffer, stream, lock, cb, cb_block,
                 cb_at, nblocks, chunks, wav, dir_exists, at_stop, at_pause,
                 start_n>>

\* A plausible slip: the handlers re-raise without restoring the flags.
rollback_none(op, rec, paused) == <<rec, paused>>

\* The `except Exception:` handlers of start() and resume(): the rolled-back
\* flags, then `raise`.
rollback(op, rec, paused) ==
  IF op = "start" THEN <<FALSE, paused>> ELSE <<rec, TRUE>>

FailCS ==
  /\ pc = "fail_cs"
  /\ lock' = "free"
  /\ is_recording' = rollback(call.op, is_recording, is_paused)[1]
  /\ is_paused' = rollback(call.op, is_recording, is_paused)[2]
  /\ pc' = "idle"
  /\ call' = [call EXCEPT !.ret = "raise"]
  /\ UNCHANGED <<buffer, stream, streams, cb, cb_block, cb_at, nblocks,
                 chunks, wav, dir_exists, at_stop, at_pause, start_n>>

\* A plausible slip: pause() only sets the flag and keeps the stream running.
PauseCS_mute_only ==
  /\ pc = "pause_cs"
  /\ lock' = "free"
  /\ is_paused' = TRUE
  /\ at_pause' = buffer
  /\ pc' = "idle"
  /\ call' = [call EXCEPT !.ret = "ok"]
  /\ UNCHANGED <<is_recording, buffer, stream, streams, cb, cb_block, cb_at,
                 nblocks, chunks, wav, dir_exists, at_stop, start_n>>

\* pause(), the locked block: `self._is_paused = True`, whatever the state.
PauseCS ==
  /\ pc = "pause_cs"
  /\ lock' = "free"
  /\ is_paused' = TRUE
  /\ at_pause' = buffer
  /\ pc' = "sd_stop"
  /\ UNCHANGED <<is_recording, buffer, stream, streams, call, cb, cb_block,
                 cb_at, nblocks, chunks, wav, dir_exists, at_stop, start_n>>

\* A plausible slip: resume() checks is_recording only.
resume_refuses_idle_only(rec, paused) == ~rec

\* resume(): `if not self._is_recording or not self._is_paused: return False`.
resume_refuses(rec, paused) == ~rec \/ ~paused

\* resume(), the locked block.
ResumeCS ==
  /\ pc = "resume_cs"
  /\ lock' = "free"
  /\ IF resume_refuses(is_recording, is_paused)
     THEN /\ pc' = "idle"
          /\ call' = [call EXCEPT !.ret = "false"]
          /\ UNCHANGED is_paused
     ELSE /\ is_paused' = FALSE
          /\ pc' = "open"
          /\ UNCHANGED call
  /\ UNCHANGED <<is_recording, buffer, stream, streams, cb, cb_block, cb_at,
                 nblocks, chunks, wav, dir_exists, at_stop, at_pause,
                 start_n>>

\* A plausible slip: stop() clears is_recording and forgets is_paused.
StopCS_keeps_paused ==
  /\ pc = "stop_cs"
  /\ lock' = "free"
  /\ is_recording' = FALSE
  /\ at_stop' = [valid |-> TRUE, buf |-> buffer]
  /\ pc' = "sd_stop"
  /\ UNCHANGED <<is_paused, buffer, stream, streams, call, cb, cb_block,
                 cb_at, nblocks, chunks, wav, dir_exists, at_pause, start_n>>

\* stop(), the locked block: both flags cleared.
StopCS ==
  /\ pc = "stop_cs"
  /\ lock' = "free"
  /\ is_recording' = FALSE
  /\ is_paused' = FALSE
  /\ at_stop' = [valid |-> TRUE, buf |-> buffer]
  /\ pc' = "sd_stop"
  /\ UNCHANGED <<buffer, stream, streams, call, cb, cb_block, cb_at, nblocks,
                 chunks, wav, dir_exists, at_pause, start_n>>

\* Where pause(), stop() and stop_and_save() go once the stream is released.
AfterRelease(op) == IF op = "stop_and_save" THEN "save_lock" ELSE "idle"

Returned(op, c) ==
  IF op = "stop_and_save" THEN c ELSE [c EXCEPT !.ret = "ok"]

\* pause() and stop(): `if self._stream is not None: self._stream.stop()`.
\* Stopping an active stream returns once the callback in progress has
\* returned; after it no further block is delivered.
StreamStop ==
  /\ pc = "sd_stop"
  /\ IF stream = 0
     THEN /\ pc' = AfterRelease(call.op)
          /\ call' = Returned(call.op, call)
          /\ UNCHANGED streams
     ELSE /\ streams[stream] = "active" => cb = "idle"
          /\ streams' = [streams EXCEPT ![stream] = "stopped"]
          /\ pc' = "sd_close"
          /\ UNCHANGED call
  /\ UNCHANGED <<is_recording, is_paused, buffer, stream, lock, cb, cb_block,
                 cb_at, nblocks, chunks, wav, dir_exists, at_stop, at_pause,
                 start_n>>

\* pause() and stop(): `self._stream.close(); self._stream = None`.
StreamClose ==
  /\ pc = "sd_close"
  /\ streams' = [streams EXCEPT ![stream] = "closed"]
  /\ stream' = 0
  /\ pc' = AfterRelease(call.op)
  /\ call' = Returned(call.op, call)
  /\ UNCHANGED <<is_recording, is_paused, buffer, lock, cb, cb_block, cb_at,
                 nblocks, chunks, wav, dir_exists, at_stop, at_pause,
                 start_n>>

\* A plausible slip: the file is written inside the `with` block.
SaveCS_holds_lock ==
  /\ pc = "save_cs"
  /\ chunks' = buffer
  /\ pc' = "save_write"
  /\ UNCHANGED <<is_recording, is_paused, buffer, stream, lock, streams, call,
                 cb, cb_block, cb_at, nblocks, wav, dir_exists, at_stop,
                 at_pause, start_n>>

\* save_to_wav(), the locked block: `chunks = list(self._buffer)`.
SaveCS ==
  /\ pc = "save_cs"
  /\ lock' = "free"
  /\ chunks' = buffer
  /\ pc' = "save_write"
  /\ UNCHANGED <<is_recording, is_paused, buffer, stream, streams, call, cb,
                 cb_block, cb_at, nblocks, wav, dir_exists, at_stop, at_pause,
                 start_n>>

\* A plausible slip: the empty-buffer check is missing.
save_refuses_never(cs) == FALSE

\* save_to_wav(): `if not chunks: return False`.
save_refuses(cs) == cs = <<>>

\* save_to_wav() after the lock: nothing for an empty copy, else the parent
\* directory is made and the concatenated samples are written as PCM_16 (the
\* blocks are int16 already, so the samples are stored as they are).
SaveWrite ==
  /\ pc = "save_write"
  /\ IF save_refuses(chunks)
     THEN /\ call' = [call EXCEPT !.ret = "false"]
          /\ UNCHANGED <<wav, dir_exists>>
     ELSE /\ dir_exists' = TRUE
          /\ wav' = [exists |-> TRUE, data |-> concatenate(chunks)]
          /\ call' = [call EXCEPT !.ret = "true"]
  /\ pc' = "idle"
  /\ UNCHANGED <<is_recording, is_paused, buffer, stream, lock, streams, cb,
                 cb_block, cb_at, nblocks, chunks, at_stop, at_pause,
                 start_n>>

\* The is_recording property and get_buffer_duration_seconds, the locked
\* block: the flag, or a copy of the chunk list, is read and returned (the
\* duration as the number of samples, the rate left out).
GetCS ==
  /\ pc = "get_cs"
  /\ lock' = "free"
  /\ call' = [call EXCEPT !.ret =
                 IF call.op = "is_recording"
                 THEN (IF is_recording THEN "true" ELSE "false")
                 ELSE (IF Len(concatenate(buffer)) > 0 THEN "positive"
                       ELSE "zero")]
  /\ pc' = "idle"
  /\ UNCHANGED <<is_recording, is_paused, buffer, stream, streams, cb,
                 cb_block, cb_at, nblocks, chunks, wav, dir_exists, at_stop,
                 at_pause, start_n>>

\* The active stream hands the next block to _callback on its own thread.
Deliver ==
  /\ cb = "idle"
  /\ nblocks < MaxBlocks
  /\ \E s \in 1..Len(streams) : streams[s] = "active"
  /\ nblocks' = nblocks + 1
  /\ cb_block' = Block(nblocks + 1)
  /\ cb_at' = RecState
  /\ cb' = "wait"
  /\ UNCHANGED <<is_recording, is_paused, buffer, stream, lock, streams, pc,
                 call, chunks, wav, dir_exists, at_stop, at_pause, start_n>>

\* _callback: `with self._lock:` entered.
CallbackAcquire ==
  /\ cb = "wait"
  /\ lock = "free"
  /\ lock' = "cb"
  /\ cb' = "locked"
  /\ UNCHANGED <<is_recording, is_paused, buffer, stream, streams, pc, call,
                 cb_block, cb_at, nblocks, chunks, wav, dir_exists, at_stop,
                 at_pause, start_n>>

\* A plausible slip: the callback checks is_recording only.
callback_accepts_paused(rec, paused) == rec

\* _callback: `if self._is_recording and not self._is_paused`.
callback_accepts(rec, paused) == rec /\ ~paused

\* A plausible slip: the new block goes to the front of the list.
buffer_prepend(buf, indata) == <<indata>> \o buf

\* _callback: `self._buffer.append(indata.copy())`.
buffer_append(buf, indata) == Append(buf, indata)

\* _callback, the locked block.
CallbackCS ==
  /\ cb = "locked"
  /\ lock' = "free"
  /\ buffer' = IF callback_accepts(is_recording, is_paused)
               THEN buffer_append(buffer, cb_block) ELSE buffer
  /\ cb' = "idle"
  /\ cb_block' = <<>>
  /\ UNCHANGED <<is_recording, is_paused, stream, streams, pc, call, cb_at,
                 nblocks, chunks, wav, dir_exists, at_stop, at_pause,
                 start_n>>

\* ---------------------------------------------------------- ScriptFormat
\* Text is a sequence of characters, each a one-character string; a character
\* outside ASCII is written by its code point ("U+3000").
Min(a, b) == IF a < b THEN a ELSE b
Max(a, b) == IF a > b THEN a ELSE b

\* unicodedata.normalize("NFKC", .) on one character: compatibility characters
\* become their ASCII counterparts (U+2025, the two dot leader, becomes two
\* full stops), every other character is kept.
NFKC(c) ==
  CASE c = "U+3000" -> <<" ">>
    [] c = "U+FF0F" -> <<"/">>
    [] c = "U+FF0E" -> <<".">>
    [] c = "U+FF3F" -> <<"_">>
    [] c = "U+2025" -> <<".", ".">>
    [] OTHER -> <<c>>

RECURSIVE normalize(_)
normalize(s) ==
  IF s = <<>> THEN <<>> ELSE NFKC(Head(s)) \o normalize(Tail(s))

\* The class \s of re, and the class [\\/:*?\"<>|\s] of sanitize_for_filename.
Whitespace == {" ", "\t", "\n", "\r", "U+3000"}
Forbidden == {"\\", "/", ":", "*", "?", "\"", "<", ">", "|"} \cup Whitespace

\* str.lstrip(chars), str.rstrip(chars), and the slice s[:n] (a negative n
\* counts from the end).
RECURSIVE lstrip(_, _)
lstrip(s, chars) ==
  IF s # <<>> /\ Head(s) \in chars THEN lstrip(Tail(s), chars) ELSE s

RECURSIVE rstrip(_, _)
rstrip(s, chars) ==
  IF s # <<>> /\ s[Len(s)] \in chars
  THEN rstrip(SubSeq(s, 1, Len(s) - 1), chars) ELSE s

slice_to(s, n) ==
  SubSeq(s, 1, IF n >= 0 THEN Min(n, Len(s)) ELSE Max(Len(s) + n, 0))

slice_from(s, n) ==
  SubSeq(s, (IF n >= 0 THEN Min(n, Len(s)) ELSE Max(Len(s) + n, 0)) + 1, Len(s))

sub_runs_keep(s, class) == s

\* re.sub(class+, "_", s): every maximal run of class characters becomes "_".
RECURSIVE sub_runs(_, _)
sub_runs(s, class) ==
  IF s = <<>> THEN <<>>
  ELSE IF Head(s) \in class
       THEN <<"_">> \o sub_runs(lstrip(s, class), class)
       ELSE <<Head(s)>> \o sub_runs(Tail(s), class)

StripChars == {".", "_", " "}

sanitize_for_filename(name, max_length) ==
  IF name = <<>> THEN <<>>
  ELSE LET n1 == normalize(name)
           n2 == sub_runs(n1, Forbidden)
           n3 == sub_runs(n2, Whitespace)
           n4 == lstrip(n3, StripChars)
       IN  IF n4 = <<>> THEN <<>>
           ELSE rstrip(slice_to(n4, max_length), StripChars)

\* str.rfind(c): the 0-based index of the last c, or -1.
rfind(s, c) ==
  LET I == {i \in 1..Len(s) : s[i] = c}
  IN  IF I = {} THEN -1 ELSE (CHOOSE i \in I : \A j \in I : j <= i) - 1

\* s.split("\n")[0]
first_line(s) ==
  LET I == {i \in 1..Len(s) : s[i] = "\n"}
  IN  IF I = {} THEN s
      ELSE SubSeq(s, 1, (CHOOSE i \in I : \A j \in I : i <= j) - 1)

\* str.splitlines(): "\n", "\r" and "\r\n" end a line; no empty last line.
LineBreaks == {"\n", "\r"}

RECURSIVE splitlines(_)
splitlines(s) ==
  LET B == {i \in 1..Len(s) : s[i] \in LineBreaks}
  IN  IF s = <<>> THEN <<>>
      ELSE IF B = {} THEN <<s>>
      ELSE LET i == CHOOSE k \in B : \A j \in B : k <= j
               e == IF s[i] = "\r" /\ i < Len(s) /\ s[i + 1] = "\n"
                    THEN i + 1 ELSE i
           IN  <<SubSeq(s, 1, i - 1)>> \o splitlines(SubSeq(s, e + 1, Len(s)))

strip(s) == rstrip(lstrip(s, Whitespace), Whitespace)

startswith(s, p) == Len(s) >= Len(p) /\ SubSeq(s, 1, Len(p)) = p

\* The body of the loop of get_current_section on one line: the title when the
\* stripped line starts with "## " or "# ", else <<>> (a title is never
\* empty: the stripped line has no trailing whitespace).
heading_title(line) ==
  LET s == strip(line)
  IN  IF startswith(s, <<"#", "#", " ">>) THEN strip(slice_from(s, 3))
      ELSE IF startswith(s, <<"#", " ">>) THEN strip(slice_from(s, 2))
      ELSE <<>>

RECURSIVE first_heading(_)
first_heading(lines) ==
  IF lines = <<>> THEN <<>>
  ELSE IF heading_title(Head(lines)) # <<>> THEN heading_title(Head(lines))
  ELSE first_heading(Tail(lines))

\* for line in reversed(lines): the first heading met, scanning backwards.
RECURSIVE last_heading(_)
last_heading(lines) ==
  IF lines = <<>> THEN <<>>
  ELSE IF heading_title(lines[Len(lines)]) # <<>>
       THEN heading_title(lines[Len(lines)])
  ELSE last_heading(SubSeq(lines, 1, Len(lines) - 1))

\* A plausible slip: the rest of the cursor's line is left out.
get_current_section_before_only(script_text, cursor_position) ==
  last_heading(splitlines(slice_to(script_text, cursor_position)))

get_current_section(script_text, cursor_position) ==
  LET before == slice_to(script_text, cursor_position)
      line_start == rfind(before, "\n") + 1
      rest_of_line == IF cursor_position > line_start
                      THEN first_line(slice_from(script_text, cursor_position))
                      ELSE <<>>
  IN  last_heading(splitlines(before \o rest_of_line))


\* str.lower() on one character, and on a string.
Lower(c) ==
  CASE c = "A" -> "a" [] c = "B" -> "b" [] c = "V" -> "v" [] c = "W" -> "w"
    [] OTHER -> c

lower(s) == [i \in 1..Len(s) |-> Lower(s[i])]

\* The class \d of re (U+0663 is ARABIC-INDIC DIGIT THREE), and int() on one
\* digit and on a string of digits.
Digits == {"0", "1", "2", "3", "4", "5", "6", "7", "8", "9", "U+0663"}

DigitVal(c) ==
  CASE c = "0" -> 0 [] c = "1" -> 1 [] c = "2" -> 2 [] c = "3" -> 3
    [] c = "4" -> 4 [] c = "5" -> 5 [] c = "6" -> 6 [] c = "7" -> 7
    [] c = "8" -> 8 [] c = "9" -> 9 [] c = "U+0663" -> 3

RECURSIVE int(_)
int(ds) ==
  IF ds = <<>> THEN 0
  ELSE 10 * int(SubSeq(ds, 1, Len(ds) - 1)) + DigitVal(ds[Len(ds)])

\* str(n) for n >= 0, and the format specification 02d.
DigitChar(d) == <<"0", "1", "2", "3", "4", "5", "6", "7", "8", "9">>[d + 1]

RECURSIVE str(_)
str(n) ==
  IF n < 10 THEN <<DigitChar(n)>> ELSE str(n \div 10) \o <<DigitChar(n % 10)>>

format_02d(n) == IF n < 10 THEN <<"0">> \o str(n) ELSE str(n)

\* The pattern re.escape(prefix) + r"_(\d+)" under re.IGNORECASE matches at
\* index i (1-based) of base.
matches_at(prefix, base, i) ==
  LET k == i + Len(prefix)
  IN  /\ k + 1 <= Len(base)
      /\ lower(SubSeq(base, i, k - 1)) = lower(prefix)
      /\ base[k] = "_"
      /\ base[k + 1] \in Digits

\* pattern.match(base), pattern.search(base): the index of the match found, or
\* 0 for None.
pattern_match(prefix, base) == IF matches_at(prefix, base, 1) THEN 1 ELSE 0

pattern_search(prefix, base) ==
  LET I == {i \in 1..Len(base) : matches_at(prefix, base, i)}
  IN  IF I = {} THEN 0 ELSE CHOOSE i \in I : \A j \in I : i <= j

\* m.group(1): the longest run of digits after the underscore.
RECURSIVE digit_run(_)
digit_run(s) ==
  IF s # <<>> /\ Head(s) \in Digits
  THEN <<Head(s)>> \o digit_run(Tail(s)) ELSE <<>>

group1(prefix, base, i) == digit_run(slice_from(base, i + Len(prefix)))

WavSuffix == <<".", "w", "a", "v">>

\* The body of the loop of suggest_take_basename: max_n after the name f.
count_name(prefix, f, max_n) ==
  LET base == IF startswith(lower(slice_from(f, Max(Len(f) - 4, 0))), WavSuffix)
              THEN slice_to(f, -4) ELSE f
      m == IF pattern_match(prefix, base) # 0
           THEN pattern_match(prefix, base) ELSE pattern_search(prefix, base)
  IN  IF m # 0 THEN Max(max_n, int(group1(prefix, base, m))) ELSE max_n

RECURSIVE count_names(_, _, _)
count_names(prefix, fs, max_n) ==
  IF fs = <<>> THEN max_n
  ELSE count_names(prefix, Tail(fs), count_name(prefix, Head(fs), max_n))

\* max_length: int = 64 of sanitize_for_filename.
DefaultMaxLength == 64

section_prefix(script_text, cursor_position) ==
  LET section == get_current_section(script_text, cursor_position)
  IN  IF section # <<>> THEN sanitize_for_filename(section, DefaultMaxLength)
      ELSE <<"t", "a", "k", "e">>

suggest_take_basename(script_text, cursor_position, existing_wav_filenames) ==
  LET prefix == section_prefix(script_text, cursor_position)
      max_n == count_names(prefix, existing_wav_filenames, 0)
  IN  prefix \o <<"_">> \o format_02d(max_n + 1)


\* No script_format function has been called yet.
NoFormatCall ==
  [op |-> "none", text |-> <<>>, n |-> 0, names |-> <<>>, out |-> <<>>,
   prefix |-> <<>>, num |-> 0, prev |-> 0, added |-> FALSE, done |-> 0]

InitFormat ==
  /\ sf = NoFormatCall
  /\ existing = <<>>

\* Names and max_length values sanitize_for_filename is called with.
NameChars == {"a", ".", "_", " ", "/", "U+FF0F", "U+2025"}
Names == UNION {[1..k -> NameChars] : k \in 0..MaxNameLen}
MaxLengths == (-1..MaxNameLen) \cup {DefaultMaxLength}

\* sanitize_for_filename(name, max_length) is about to be called.
SanitizeCalls ==
  {[NoFormatCall EXCEPT !.op = "sanitize", !.text = name, !.n = max_length] :
     name \in Names, max_length \in MaxLengths}

\* The call is made; then its result is sanitized again, with the same
\* max_length (names keeps the first call's argument).
Sanitize ==
  /\ sf.op = "sanitize"
  /\ sf.done = 0
  /\ sf' = [sf EXCEPT !.out = sanitize_for_filename(sf.text, sf.n),
                       !.done = 1]
  /\ UNCHANGED existing

SanitizeAgain ==
  /\ sf.op = "sanitize"
  /\ sf.done = 1
  /\ sf' = [sf EXCEPT !.text = sf.out,
                       !.names = <<sf.text>>,
                       !.out = sanitize_for_filename(sf.out, sf.n),
                       !.done = 2]
  /\ UNCHANGED existing

\* Scripts get_current_section is called with: up to MaxLines lines joined by
\* "\n", with or without a final "\n".
ScriptLines ==
  {<<"#", " ", "A">>, <<"#", "#", " ", "B">>, <<"x">>, <<>>, <<"#", "A">>}

RECURSIVE join(_)
join(lines) ==
  IF lines = <<>> THEN <<>>
  ELSE IF Len(lines) = 1 THEN Head(lines)
  ELSE Head(lines) \o <<"\n">> \o join(Tail(lines))

Scripts ==
  LET Joined == {join(ls) : ls \in UNION {[1..k -> ScriptLines] : k \in 1..MaxLines}}
  IN  Joined \cup {t \o <<"\n">> : t \in Joined}

\* get_current_section(script_text, cursor_position) is about to be called.
SectionCalls ==
  {[NoFormatCall EXCEPT !.op = "section", !.text = c[1], !.n = c[2]] :
     c \in UNION {{t} \X (0..Len(t)) : t \in Scripts}}

GetCurrentSection ==
  /\ sf.op = "section"
  /\ sf.done = 0
  /\ sf' = [sf EXCEPT !.out = get_current_section(sf.text, sf.n), !.done = 1]
  /\ UNCHANGED existing

\* Scripts (with the cursor at their end) and file names of takes recorded
\* earlier that suggest_take_basename is called with.
SuggestScripts == {<<"x">>, <<"#", " ", "b", "\n">>, <<"#", " ", "B", "\n">>}

ExistingPool ==
  {<<"b", "_", "0", "9", ".", "w", "a", "v">>,
   <<"a", "_", "b", "_", "0", "7", ".", "w", "a", "v">>,
   <<"B", "_", "0", "2", ".", "W", "A", "V">>,
   <<"t", "a", "k", "e", "_", "0", "3", ".", "w", "a", "v">>}

\* A take recorded earlier is in the list the caller passes.
AddExisting(name) ==
  /\ Len(existing) < MaxNames
  /\ existing' = Append(existing, name)
  /\ UNCHANGED sf

SuggestTakeBasename(script_text) ==
  LET prefix == section_prefix(script_text, Len(script_text))
      out == suggest_take_basename(script_text, Len(script_text), existing)
  IN  /\ sf' = [op |-> "suggest", text |-> script_text,
                n |-> Len(script_text), names |-> existing, out |-> out,
                prefix |-> prefix,
                num |-> int(slice_from(out, Len(prefix) + 1)),
                prev |-> IF sf.op = "suggest" /\ sf.added /\ sf.prefix = prefix
                         THEN sf.num ELSE 0,
                added |-> FALSE, done |-> 1]
      /\ UNCHANGED existing

\* The take recorded under the suggested name is added to the caller's list
\* (MainWindow._on_record_stop: add_take_from_file, then Project.add_take).
AddSuggestion ==
  /\ sf.op = "suggest"
  /\ ~sf.added
  /\ Len(existing) < MaxNames
  /\ existing' = Append(existing, sf.out \o WavSuffix)
  /\ sf' = [sf EXCEPT !.added = TRUE]


\* -------------------------------------------------------------- Playback
\* The QMediaPlayer of a Playback: setSource leaves the duration at 0 until
\* the player has loaded the file; while playing the position advances up to
\* the duration, where playback stops.
PbCall(op, ms, ret) == [op |-> op, ms |-> ms, ret |-> ret]

\* QMediaPlayer() has no source.
NoSource == -1

InitPlayback ==
  /\ source = NoSource
  /\ loaded = FALSE
  /\ duration = 0
  /\ position = 0
  /\ playbackState = "StoppedState"
  /\ playbackRate = "1.0"
  /\ pbcall = PbCall("none", 0, "none")

\* play(wav_path) of a file dur milliseconds long.
Play(dur) ==
  /\ source' = dur
  /\ loaded' = FALSE
  /\ duration' = 0
  /\ position' = 0
  /\ playbackState' = "PlayingState"
  /\ pbcall' = PbCall("play", 0, "True")
  /\ UNCHANGED playbackRate

\* play(wav_path) when wav_path is not a file.
PlayMissing ==
  /\ pbcall' = PbCall("play", 0, "False")
  /\ UNCHANGED <<source, loaded, duration, position, playbackState,
                 playbackRate>>

MediaLoaded ==
  /\ source # NoSource
  /\ ~loaded
  /\ loaded' = TRUE
  /\ duration' = source
  /\ pbcall' = PbCall("loaded", 0, "none")
  /\ UNCHANGED <<source, position, playbackState, playbackRate>>

Tick ==
  /\ playbackState = "PlayingState"
  /\ loaded
  /\ IF position < duration
     THEN position' = position + 1 /\ UNCHANGED playbackState
     ELSE playbackState' = "StoppedState" /\ UNCHANGED position
  /\ pbcall' = PbCall("tick", 0, "none")
  /\ UNCHANGED <<source, loaded, duration, playbackRate>>

Pause ==
  /\ playbackState' = "PausedState"
  /\ pbcall' = PbCall("pause", 0, "none")
  /\ UNCHANGED <<source, loaded, duration, position, playbackRate>>

Stop ==
  /\ playbackState' = "StoppedState"
  /\ position' = 0
  /\ pbcall' = PbCall("stop", 0, "none")
  /\ UNCHANGED <<source, loaded, duration, playbackRate>>

Rates == {"0.5", "1.0", "1.5"}

SetSpeed(rate) ==
  /\ playbackRate' = rate
  /\ pbcall' = PbCall("set_speed", 0, "none")
  /\ UNCHANGED <<source, loaded, duration, position, playbackState>>

seek_position_unclamped(ms, d) == ms

\* pos = max(0, min(ms, d))
seek_position(ms, d) == Max(0, Min(ms, d))

\* Values seek_to_position_ms is called with: before 0, inside and beyond the
\* longest file.
SeekArgs == (-2)..(MaxDuration + 2)

SeekToPositionMs(ms) ==
  /\ position' = IF duration > 0 THEN seek_position(ms, duration) ELSE position
  /\ pbcall' = PbCall("seek_to_position_ms", ms, "none")
  /\ UNCHANGED <<source, loaded, duration, playbackState, playbackRate>>


\* --------------------------------------------------------------- Storage
\* One project folder. project_meta.json is, by kind:
\*   "absent"    - no such file;
\*   "ok"        - what _save_meta writes: an object whose "takes" is a list
\*                 of take objects (the takes field);
\*   "syntax"    - not JSON (json.JSONDecodeError);
\*   "directory" - a directory of that name: reading and writing it raise
\*                 OSError;
\*   "no_takes"  - JSON without a "takes" member ({} or []);
\*   "encoding"  - bytes that are not UTF-8 (UnicodeDecodeError);
\*   "shape"     - JSON whose "takes" is not a list of objects, such as
\*                 {"takes": null} (TypeError).
MetaKinds ==
  {"absent", "ok", "syntax", "directory", "no_takes", "encoding", "shape"}

Meta(kind, ts) == [kind |-> kind, takes |-> ts]

\* A TakeInfo with all its fields; an id is the number of the uuid4 drawn.
Take(id, wav_filename, memo, favorite, created_at, adopted) ==
  [id |-> id, wav_filename |-> wav_filename, memo |-> memo,
   favorite |-> favorite, created_at |-> created_at, adopted |-> adopted]

\* _load_meta: "None", "dict" (with the takes a well-formed file lists, or the
\* name of a member that breaks load_project's loop), or the exception raised.
load_meta(meta) ==
  CASE meta.kind = "absent" -> "None"
    [] meta.kind \in {"syntax", "directory"} -> "None"
    [] meta.kind = "encoding" -> "UnicodeDecodeError"
    [] meta.kind = "no_takes" -> "no takes"
    [] meta.kind = "shape" -> "bad takes"
    [] meta.kind = "ok" -> "takes"

\* load_project: ret is "None", "Project" (with takes and script_text), or the
\* exception that escapes.
load_project(dir, script, meta) ==
  IF ~dir THEN [ret |-> "None", takes |-> <<>>, script_text |-> ""]
  ELSE CASE load_meta(meta) = "UnicodeDecodeError" ->
              [ret |-> "UnicodeDecodeError", takes |-> <<>>, script_text |-> ""]
         [] load_meta(meta) = "bad takes" ->
              [ret |-> "TypeError", takes |-> <<>>, script_text |-> ""]
         [] OTHER ->
              [ret |-> "Project",
               takes |-> IF load_meta(meta) = "takes" THEN meta.takes ELSE <<>>,
               script_text |-> IF script.exists THEN script.text ELSE ""]

Exceptions ==
  {"UnicodeDecodeError", "TypeError", "IsADirectoryError", "FileNotFoundError"}

\* _save_meta: write_text replaces the file, and raises on a directory.
save_meta_raises(meta) == meta.kind = "directory"

save_meta(meta, ts) == IF save_meta_raises(meta) THEN meta ELSE Meta("ok", ts)


NoTake == Take(0, <<>>, "", FALSE, 0, FALSE)

\* A storage call: the operation, its take_id, what it returned (or the
\* exception it raised), use_friendly_names and take_ids of export_takes,
\* the TakeInfo, take list, script text and path list it returned, and the
\* destination folder it wrote.
NoStorageCall ==
  [op |-> "none", id |-> 0, ret |-> "none", friendly |-> FALSE,
   take |-> NoTake,
   takes |-> <<>>, script_text |-> "", paths |-> <<>>, ids |-> <<>>,
   dest_dir |-> FALSE, dest |-> {}]

StoCall(op, id, ret) ==
  [NoStorageCall EXCEPT !.op = op, !.id = id, !.ret = ret]

InitStorage ==
  /\ proj_dir = FALSE
  /\ takes_dir = FALSE
  /\ script_file = [exists |-> FALSE, text |-> ""]
  /\ meta_file = Meta("absent", <<>>)
  /\ wav_files = {}
  /\ uuids = 0
  /\ scall = NoStorageCall

\* create_project: mkdir, mkdir takes, _save_meta of an empty Project.
CreateProject ==
  /\ proj_dir' = TRUE
  /\ takes_dir' = TRUE
  /\ meta_file' = save_meta(meta_file, <<>>)
  /\ scall' = StoCall("create_project", 0,
                      IF save_meta_raises(meta_file) THEN "IsADirectoryError"
                      ELSE "Project")
  /\ UNCHANGED <<script_file, wav_files, uuids>>

LoadProject ==
  LET proj == load_project(proj_dir, script_file, meta_file)
  IN  /\ scall' = [StoCall("load_project", 0, proj.ret) EXCEPT
                     !.takes = proj.takes, !.script_text = proj.script_text]
      /\ UNCHANGED <<proj_dir, takes_dir, script_file, meta_file, wav_files,
                     uuids>>

ScriptTexts == {"text"}

SaveScript(text) ==
  /\ proj_dir' = TRUE
  /\ script_file' = [exists |-> TRUE, text |-> text]
  /\ scall' = StoCall("save_script", 0, "None")
  /\ UNCHANGED <<takes_dir, meta_file, wav_files, uuids>>

\* str(uuid.uuid4()) of the k-th uuid drawn, and its first 8 characters, each
\* as one character of a file name.
UuidStr(k) == <<"uuid1", "uuid2", "uuid3", "uuid4", "uuid5", "uuid6">>[k]
Uuid8(k) ==
  <<"uuid1[:8]", "uuid2[:8]", "uuid3[:8]", "uuid4[:8]", "uuid5[:8]",
    "uuid6[:8]">>[k]

\* max_length=120 of the sanitize_for_filename call of add_take_from_file.
PreferredMaxLength == 120

endswith_wav(f) ==
  startswith(lower(slice_from(f, Max(Len(f) - 4, 0))), WavSuffix)

\* A plausible slip: the preferred name is used whether or not it exists.
dest_name_no_suffix(preferred_basename, base, take_id, files) ==
  IF preferred_basename # <<>>
  THEN LET safe == sanitize_for_filename(preferred_basename, PreferredMaxLength)
       IN  IF safe # <<>> THEN safe \o WavSuffix
           ELSE <<UuidStr(take_id)>> \o WavSuffix
  ELSE <<UuidStr(take_id), "_">>
         \o (IF endswith_wav(base) THEN base ELSE base \o WavSuffix)

\* dest_name of add_take_from_file; files are the names in takes/.
dest_name(preferred_basename, base, take_id, files) ==
  IF preferred_basename # <<>>
  THEN LET safe == sanitize_for_filename(preferred_basename, PreferredMaxLength)
           first == IF safe # <<>> THEN safe \o WavSuffix
                    ELSE <<UuidStr(take_id)>> \o WavSuffix
       IN  IF first \in files
           THEN safe \o <<"_", Uuid8(take_id)>> \o WavSuffix
           ELSE first
  ELSE <<UuidStr(take_id), "_">>
         \o (IF endswith_wav(base) THEN base ELSE base \o WavSuffix)

add_take_first(ts, take) == <<take>> \o ts

\* Project.add_take
add_take(ts, take) == Append(ts, take)

\* Arguments of add_take_from_file: memo and favorite (the defaults, or both
\* given), preferred_basename (None or "a") and the name of wav_path.
Memos == {"", "memo"}
MemoFavorite == {<<"", FALSE>>, <<"memo", TRUE>>}
PreferredBasenames == {<<>>, <<"a">>}
SourceNames == {<<"t", "m", "p">>}

\* add_take_from_file: the takes folder is made and the uuid drawn; the copy
\* raises when wav_path is missing; load_project may raise; the take is
\* appended and the metadata saved.
AddTakeFromFile(src_exists, memo, favorite, preferred_basename, base) ==
  /\ uuids < MaxNewTakes
  /\ LET take_id == uuids + 1
         name == dest_name(preferred_basename, base, take_id, wav_files)
         take == Take(take_id, name, memo, favorite, take_id, FALSE)
         proj == load_project(TRUE, script_file, meta_file)
         ret == IF ~src_exists THEN "FileNotFoundError"
                ELSE IF proj.ret \in Exceptions THEN proj.ret
                ELSE IF save_meta_raises(meta_file) THEN "IsADirectoryError"
                ELSE "TakeInfo"
     IN  /\ proj_dir' = TRUE
         /\ takes_dir' = TRUE
         /\ uuids' = uuids + 1
         /\ wav_files' = IF src_exists THEN wav_files \cup {name} ELSE wav_files
         /\ meta_file' = IF ret = "TakeInfo"
                         THEN save_meta(meta_file, add_take(proj.takes, take))
                         ELSE meta_file
         /\ scall' = IF ret = "TakeInfo"
                     THEN [StoCall("add_take_from_file", take_id, ret) EXCEPT
                             !.take = take]
                     ELSE StoCall("add_take_from_file", take_id, ret)
         /\ UNCHANGED script_file


\* Ids the take operations are called with: every uuid drawn in a run, and
\* one never drawn.
StorageIds == 1..(MaxNewTakes + 1)

\* An optional argument: <<>> for None, <<v>> for the value v.
Optional(S) == {<<>>} \cup {<<v>> : v \in S}

memo_or_empty(memo, old) == IF memo # <<>> THEN memo[1] ELSE ""

\* if memo is not None: t.memo = memo (and the same for favorite)
memo_or_old(memo, old) == IF memo # <<>> THEN memo[1] ELSE old

favorite_or_old(favorite, old) == IF favorite # <<>> THEN favorite[1] ELSE old

\* A plausible slip: `t.adopted = adopted` in place of the Project setter.
update_take_fields_set_flag(ts, take_id, memo, favorite, adopted) ==
  LET t == get_take(ts, take_id)
      ts1 == [ts EXCEPT ![t].memo = memo_or_old(memo, ts[t].memo),
                        ![t].favorite = favorite_or_old(favorite, ts[t].favorite)]
  IN  IF adopted # <<>> THEN [ts1 EXCEPT ![t].adopted = adopted[1]]
      ELSE ts1

\* The take list update_take_meta saves when the take is found.
update_take_fields(ts, take_id, memo, favorite, adopted) ==
  LET t == get_take(ts, take_id)
      ts1 == [ts EXCEPT ![t].memo = memo_or_old(memo, ts[t].memo),
                        ![t].favorite = favorite_or_old(favorite, ts[t].favorite)]
  IN  IF adopted # <<>> THEN update_take_adopted(ts1, take_id, adopted[1])
      ELSE ts1

UpdateTakeMeta(take_id, memo, favorite, adopted) ==
  LET proj == load_project(proj_dir, script_file, meta_file)
      found == proj.ret = "Project" /\ get_take(proj.takes, take_id) # 0
      ret == IF proj.ret \in Exceptions THEN proj.ret
             ELSE IF ~found THEN "False"
             ELSE IF save_meta_raises(meta_file) THEN "IsADirectoryError"
             ELSE "True"
  IN  /\ meta_file' =
           IF ret = "True"
           THEN save_meta(meta_file,
                          update_take_fields(proj.takes, take_id, memo,
                                             favorite, adopted))
           ELSE meta_file
      /\ scall' = StoCall("update_take_meta", take_id, ret)
      /\ UNCHANGED <<proj_dir, takes_dir, script_file, wav_files, uuids>>

\* proj.takes = [x for x in proj.takes if x.id != take_id]
RECURSIVE without_take(_, _)
without_take(ts, take_id) ==
  IF ts = <<>> THEN <<>>
  ELSE IF Head(ts).id # take_id
       THEN <<Head(ts)>> \o without_take(Tail(ts), take_id)
       ELSE without_take(Tail(ts), take_id)

DeleteTake(take_id) ==
  LET proj == load_project(proj_dir, script_file, meta_file)
      t == get_take(proj.takes, take_id)
      found == proj.ret = "Project" /\ t # 0
      ret == IF proj.ret \in Exceptions THEN proj.ret
             ELSE IF ~found THEN "False"
             ELSE IF save_meta_raises(meta_file) THEN "IsADirectoryError"
             ELSE "True"
  IN  /\ wav_files' = IF found THEN wav_files \ {proj.takes[t].wav_filename}
                      ELSE wav_files
      /\ meta_file' = IF ret = "True"
                      THEN save_meta(meta_file, without_take(proj.takes, take_id))
                      ELSE meta_file
      /\ scall' = StoCall("delete_take", take_id, ret)
      /\ UNCHANGED <<proj_dir, takes_dir, script_file, uuids>>

\* Path(project_dir).name
ProjectName == <<"d", "e", "m", "o">>

\* out_name of export_takes; idx counts every requested id.
out_name(take, idx, use_friendly_names) ==
  IF use_friendly_names
  THEN ProjectName \o <<"_", "T", "a", "k", "e">> \o str(idx + 1) \o WavSuffix
  ELSE take.wav_filename

\* The loop of export_takes from index idx (0-based) on: the names copied to
\* dest, in order.
RECURSIVE export_loop(_, _, _, _, _)
export_loop(ts, files, take_ids, idx, use_friendly_names) ==
  IF idx >= Len(take_ids) THEN <<>>
  ELSE LET t == get_take(ts, take_ids[idx + 1])
       IN  IF t = 0 \/ ts[t].wav_filename \notin files
           THEN export_loop(ts, files, take_ids, idx + 1, use_friendly_names)
           ELSE <<out_name(ts[t], idx, use_friendly_names)>>
                  \o export_loop(ts, files, take_ids, idx + 1,
                                 use_friendly_names)

ExportIds == UNION {[1..k -> StorageIds] : k \in 0..MaxExport}

\* export_takes into a destination folder that did not exist.
ExportTakes(take_ids, use_friendly_names) ==
  LET proj == load_project(proj_dir, script_file, meta_file)
      copied == IF proj.ret = "Project"
                THEN export_loop(proj.takes, wav_files, take_ids, 0,
                                 use_friendly_names)
                ELSE <<>>
  IN  /\ scall' = [StoCall("export_takes", 0,
                           IF proj.ret \in Exceptions THEN proj.ret ELSE "list")
                     EXCEPT !.friendly = use_friendly_names,
                            !.ids = take_ids,
                            !.paths = copied,
                            !.dest_dir = TRUE,
                            !.dest = {copied[i] : i \in 1..Len(copied)}]
      /\ UNCHANGED <<proj_dir, takes_dir, script_file, meta_file, wav_files,
                     uuids>>

\* Outside the program: project_meta.json is replaced by something _save_meta
\* did not write, or a file of takes/ is removed.
ForeignMetaKinds == MetaKinds \ {"absent", "ok"}

ReplaceMeta(kind) ==
  /\ proj_dir
  /\ meta_file.kind # kind
  /\ meta_file' = Meta(kind, <<>>)
  /\ scall' = StoCall("outside", 0, "none")
  /\ UNCHANGED <<proj_dir, takes_dir, script_file, wav_files, uuids>>

RemoveWav(f) ==
  /\ f \in wav_files
  /\ wav_files' = wav_files \ {f}
  /\ scall' = StoCall("outside", 0, "none")
  /\ UNCHANGED <<proj_dir, takes_dir, script_file, meta_file, uuids>>


\* Project.update_take_memo and Project.update_take_favorite: the take list
\* after the call, and the value returned.
update_take_memo(ts, take_id, memo) ==
  LET t == get_take(ts, take_id)
  IN  IF t = 0 THEN ts ELSE [ts EXCEPT ![t].memo = memo]

update_take_favorite(ts, take_id, favorite) ==
  LET t == get_take(ts, take_id)
  IN  IF t = 0 THEN ts ELSE [ts EXCEPT ![t].favorite = favorite]

update_take_result(ts, take_id) ==
  IF get_take(ts, take_id) # 0 THEN "True" ELSE "False"

\* A Project method called on the Project load_project has just returned (the
\* disk is not written): scall.takes is the Project's take list after it.
ProjectUpdateTakeMemo(take_id, memo) ==
  LET proj == load_project(proj_dir, script_file, meta_file)
  IN  /\ proj.ret = "Project"
      /\ scall' = [StoCall("Project.update_take_memo", take_id,
                           update_take_result(proj.takes, take_id))
                     EXCEPT !.takes = update_take_memo(proj.takes, take_id, memo)]
      /\ UNCHANGED <<proj_dir, takes_dir, script_file, meta_file, wav_files,
                     uuids>>

ProjectUpdateTakeFavorite(take_id, favorite) ==
  LET proj == load_project(proj_dir, script_file, meta_file)
  IN  /\ proj.ret = "Project"
      /\ scall' = [StoCall("Project.update_take_favorite", take_id,
                           update_take_result(proj.takes, take_id))
                     EXCEPT !.takes = update_take_favorite(proj.takes, take_id,
                                                           favorite)]
      /\ UNCHANGED <<proj_dir, takes_dir, script_file, meta_file, wav_files,
                     uuids>>

ProjectUpdateTakeAdopted(take_id, adopted) ==
  LET proj == load_project(proj_dir, script_file, meta_file)
  IN  /\ proj.ret = "Project"
      /\ scall' = [StoCall("Project.update_take_adopted", take_id,
                           update_take_result(proj.takes, take_id))
                     EXCEPT !.takes = update_take_adopted(proj.takes, take_id,
                                                          adopted)]
      /\ UNCHANGED <<proj_dir, takes_dir, script_file, meta_file, wav_files,
                     uuids>>


\* ---------------------------------------------- MainWindow: playback
\* The takes of the list: two with an audio file, of different lengths, and
\* one whose file is missing from takes/.
UiTakeIds == {1, 2, 3}
MissingFileTake == 3
is_file(take_id) == take_id # MissingFileTake
FileDuration(take_id) == IF take_id = 1 THEN MaxDuration - 1 ELSE MaxDuration

\* None, as a take id and as the position of the marker.
NoTakeId == 0
NoMarker == -1

\* max(0, cur - 5000) and min(duration_ms, cur + 5000)
SeekStepMs == 5000

\* The player and the playback fields of the window as one value, so that
\* the calls of a handler can be applied one after the other.
World ==
  [source |-> source, loaded |-> loaded, duration |-> duration,
   position |-> position, playbackState |-> playbackState,
   playing_take_id |-> ui.playing_take_id,
   loaded_take_id |-> ui.loaded_take_id,
   timer |-> ui.timer, marker |-> ui.marker,
   duration_seconds |-> ui.duration_seconds,
   last_was_playing |-> ui.last_was_playing,
   activated |-> ui.activated]

InitUi ==
  ui = [playing_take_id |-> NoTakeId, loaded_take_id |-> NoTakeId,
        timer |-> FALSE, marker |-> NoMarker, duration_seconds |-> 0,
        last_was_playing |-> FALSE, activated |-> NoTakeId,
        handler |-> "none"]

playback_is_playing(w) == w.playbackState = "PlayingState"
playback_is_paused(w) == w.playbackState = "PausedState"

\* A plausible slip: the slot keeps _playing_take_id when playback ends.
on_playback_state_changed_keeps_id(w) ==
  LET now_playing == playback_is_playing(w)
      now_stopped == ~now_playing /\ ~playback_is_paused(w)
      w1 == [w EXCEPT !.last_was_playing = now_playing]
  IN  IF now_stopped
      THEN [w1 EXCEPT !.timer = FALSE, !.marker = NoMarker]
      ELSE w1

\* _on_playback_state_changed
on_playback_state_changed(w) ==
  LET now_playing == playback_is_playing(w)
      now_stopped == ~now_playing /\ ~playback_is_paused(w)
      w1 == [w EXCEPT !.last_was_playing = now_playing]
  IN  IF now_stopped
      THEN [w1 EXCEPT !.timer = FALSE, !.playing_take_id = NoTakeId,
                      !.marker = NoMarker]
      ELSE w1

\* The player takes a new state: playbackStateChanged is emitted when the
\* state differs from the old one, and the connected slot runs at once.
set_state(w, state) ==
  IF w.playbackState = state THEN w
  ELSE on_playback_state_changed([w EXCEPT !.playbackState = state])

\* QMediaPlayer.stop(), play() and pause().
player_stop(w) == set_state([w EXCEPT !.position = 0], "StoppedState")
player_play(w) ==
  IF w.source = NoSource THEN w ELSE set_state(w, "PlayingState")
player_pause(w) == set_state(w, "PausedState")

\* QMediaPlayer.setSource(): the new source is not loaded yet. Qt 6 stops a
\* running player first (stops = TRUE); a player that keeps its state while
\* the source changes is stops = FALSE.
player_setSource(w, take_id, stops) ==
  LET w1 == IF stops THEN player_stop(w) ELSE w
  IN  [w1 EXCEPT !.source = FileDuration(take_id), !.loaded = FALSE,
                 !.duration = 0, !.position = 0]

\* Playback.play(wav_path)
playback_play(w, take_id, stops) ==
  IF ~is_file(take_id) THEN w
  ELSE player_play(player_setSource(w, take_id, stops))

\* Playback.seek_to_position_ms(ms)
playback_seek(w, ms) ==
  IF w.duration > 0 THEN [w EXCEPT !.position = seek_position(ms, w.duration)]
  ELSE w

\* _load_playback_waveform: soundfile reads the file, or raises.
load_playback_waveform(w, take_id) ==
  IF is_file(take_id)
  THEN [w EXCEPT !.duration_seconds = FileDuration(take_id), !.marker = 0]
  ELSE [w EXCEPT !.duration_seconds = 0, !.marker = NoMarker]

\* _on_take_double_clicked, for a take of the project.
on_take_double_clicked(w, take_id, stops) ==
  LET w1 == [w EXCEPT !.playing_take_id = take_id,
                      !.loaded_take_id = take_id,
                      !.activated = take_id]
      w2 == load_playback_waveform(w1, take_id)
      w3 == playback_play(w2, take_id, stops)
  IN  [w3 EXCEPT !.timer = TRUE]

\* _on_play_pause_toggle with take_id the current item of the list.
on_play_pause_toggle(w, take_id, stops) ==
  IF playback_is_playing(w) THEN player_pause(w)
  ELSE IF playback_is_paused(w) THEN player_play(w)
  ELSE IF /\ w.duration_seconds > 0
          /\ w.loaded_take_id # NoTakeId
          /\ take_id = w.loaded_take_id
       THEN LET pos == IF w.marker = NoMarker THEN 0 ELSE w.marker
                w1 == player_play(playback_seek(w, pos))
            IN  [w1 EXCEPT !.playing_take_id = take_id, !.timer = TRUE,
                           !.activated = take_id]
       ELSE on_take_double_clicked(w, take_id, stops)

\* The common part of _on_playback_seek_requested, _on_seek_backward and
\* _on_seek_forward once the new position is known.
seek_and_resume(w, ms) ==
  LET w1 == [playback_seek(w, ms) EXCEPT !.marker = ms]
  IN  IF playback_is_playing(w1) \/ playback_is_paused(w1) THEN player_play(w1) ELSE w1

\* _on_playback_stop
on_playback_stop(w) ==
  [player_stop(w) EXCEPT !.timer = FALSE, !.playing_take_id = NoTakeId,
                         !.marker = NoMarker]

\* _reset_playback_ui
reset_playback_ui(w) ==
  [player_stop(w) EXCEPT !.timer = FALSE, !.playing_take_id = NoTakeId,
                         !.loaded_take_id = NoTakeId,
                         !.duration_seconds = 0, !.marker = NoMarker,
                         !.activated = NoTakeId]

\* The handler named has run and left the player and the window as w.
Handled(w, handler) ==
  /\ source' = w.source
  /\ loaded' = w.loaded
  /\ duration' = w.duration
  /\ position' = w.position
  /\ playbackState' = w.playbackState
  /\ ui' = [playing_take_id |-> w.playing_take_id,
            loaded_take_id |-> w.loaded_take_id,
            timer |-> w.timer, marker |-> w.marker,
            duration_seconds |-> w.duration_seconds,
            last_was_playing |-> w.last_was_playing,
            activated |-> w.activated,
            handler |-> handler]
  /\ UNCHANGED <<playbackRate, pbcall>>

OnTakeDoubleClicked(take_id, stops) ==
  Handled(on_take_double_clicked(World, take_id, stops),
          "_on_take_double_clicked")

OnPlayPauseToggle(take_id, stops) ==
  Handled(on_play_pause_toggle(World, take_id, stops), "_on_play_pause_toggle")

\* ms = max(0, min(duration_ms, int(ratio * duration_ms)))
OnPlaybackSeekRequested(ms) ==
  /\ ui.duration_seconds > 0
  /\ ms \in 0..ui.duration_seconds
  /\ Handled(seek_and_resume(World, ms), "_on_playback_seek_requested")

OnSeekBackward ==
  /\ ui.duration_seconds > 0
  /\ Handled(seek_and_resume(World, Max(0, position - SeekStepMs)),
             "_on_seek_backward")

OnSeekForward ==
  /\ ui.duration_seconds > 0
  /\ Handled(seek_and_resume(World, Min(ui.duration_seconds,
                                        position + SeekStepMs)),
             "_on_seek_forward")

OnPlaybackStop == Handled(on_playback_stop(World), "_on_playback_stop")

ResetPlaybackUi == Handled(reset_playback_ui(World), "_reset_playback_ui")

\* _on_playback_position_tick: the timer fires.
OnPlaybackPositionTick ==
  /\ ui.timer
  /\ Handled([World EXCEPT !.marker = Max(0, position)],
             "_on_playback_position_tick")

\* The player finishes loading the source.
PlayerLoaded ==
  /\ source # NoSource
  /\ ~loaded
  /\ Handled([World EXCEPT !.loaded = TRUE, !.duration = source], "loaded")

\* The player plays on; at the end of the source it stops, and the slot of
\* playbackStateChanged runs.
PlayerAdvance ==
  /\ playbackState = "PlayingState"
  /\ loaded
  /\ IF position < duration
     THEN Handled([World EXCEPT !.position = position + 1], "playing")
     ELSE Handled(set_state(World, "StoppedState"),
                  "_on_playback_state_changed")


\* ------------------------------------------------- MainWindow: takes
\* The text a new project's script starts with.
DefaultScriptTemplate == "template"

\* The name of the temporary file of tempfile.mkstemp(suffix=".wav").
TmpWav == <<"t", "m", "p", ".", "w", "a", "v">>

InitApp ==
  app = [project_dir |-> FALSE, takes |-> <<>>, is_recording |-> FALSE,
         handler |-> "none", saved |-> FALSE, take_id |-> 0]

\* Project.has_project_dir() of self._project
has_project_dir == app.project_dir /\ proj_dir

\* What a handler leaves in app: the Project's take list, and the handler,
\* the result of stop_and_save and the take it was about.
AppAfter(ts, handler, saved, take_id) ==
  [app EXCEPT !.takes = ts, !.handler = handler, !.saved = saved,
              !.take_id = take_id]

\* A plausible slip: the handler keeps its Project after writing the disk.
reloaded_keeps(ts, proj) == ts

\* `storage.load_project(self._project.project_dir) or self._project`
reloaded(ts, proj) == IF proj.ret = "Project" THEN proj.takes ELSE ts

\* _on_new_project, with the folder chosen: create_project, the playback
\* views reset, save_script of the template.
OnNewProject ==
  /\ ~save_meta_raises(meta_file)
  /\ proj_dir' = TRUE
  /\ takes_dir' = TRUE
  /\ meta_file' = save_meta(meta_file, <<>>)
  /\ script_file' = [exists |-> TRUE, text |-> DefaultScriptTemplate]
  /\ scall' = StoCall("save_script", 0, "None")
  /\ UNCHANGED <<wav_files, uuids>>
  /\ Handled(reset_playback_ui(World), "_reset_playback_ui")
  /\ app' = [AppAfter(<<>>, "_on_new_project", FALSE, 0)
               EXCEPT !.project_dir = TRUE]

\* _on_open_project, with the folder chosen: a warning when load_project
\* returns None, else the Project loaded and the playback views reset.
OnOpenProject ==
  LET proj == load_project(proj_dir, script_file, meta_file)
  IN  /\ proj.ret \in {"None", "Project"}
      /\ scall' = [StoCall("load_project", 0, proj.ret) EXCEPT
                     !.takes = proj.takes, !.script_text = proj.script_text]
      /\ UNCHANGED <<proj_dir, takes_dir, script_file, meta_file, wav_files,
                     uuids>>
      /\ IF proj.ret = "Project"
         THEN /\ Handled(reset_playback_ui(World), "_reset_playback_ui")
              /\ app' = [AppAfter(proj.takes, "_on_open_project", FALSE, 0)
                           EXCEPT !.project_dir = TRUE]
         ELSE /\ UNCHANGED <<playVars, uiVars>>
              /\ app' = AppAfter(app.takes, "_on_open_project", FALSE, 0)

\* _on_record_toggle: a warning without a project folder; Recorder.start()
\* when not recording, which raises (a warning) or leaves the Recorder
\* recording; pause() and resume() leave is_recording as it is.
OnRecordToggle(started) ==
  /\ app' = [AppAfter(app.takes, "_on_record_toggle", FALSE, 0)
               EXCEPT !.is_recording =
                        IF has_project_dir /\ ~app.is_recording THEN started
                        ELSE @]
  /\ UNCHANGED <<stoVars, playVars, uiVars>>

\* _on_record_stop: stop_and_save returns False for an empty buffer (saved);
\* else add_take_from_file of the temporary file with the suggested
\* basename, and add_take of the TakeInfo it returns.
OnRecordStop(saved, preferred_basename) ==
  /\ app.is_recording
  /\ IF saved
     THEN /\ AddTakeFromFile(TRUE, "", FALSE, preferred_basename, TmpWav)
          /\ app' = [AppAfter(IF scall'.ret = "TakeInfo"
                              THEN add_take(app.takes, scall'.take)
                              ELSE app.takes,
                              "_on_record_stop", TRUE, scall'.id)
                       EXCEPT !.is_recording = FALSE]
     ELSE /\ UNCHANGED stoVars
          /\ app' = [AppAfter(app.takes, "_on_record_stop", FALSE, 0)
                       EXCEPT !.is_recording = FALSE]
  /\ UNCHANGED <<playVars, uiVars>>

\* The ids of the items of the take list, which _refresh_take_list fills
\* from self._project.takes.
ListedIds == {app.takes[i].id : i \in 1..Len(app.takes)}

\* toggle_fav, toggle_adopted and edit_memo of a listed take, once memo,
\* favorite and adopted of the update_take_meta call are known: the call,
\* and the Project loaded again unless the call raised.
MenuUpdate(take_id, memo, favorite, adopted, handler) ==
  /\ take_id \in ListedIds
  /\ UpdateTakeMeta(take_id, memo, favorite, adopted)
  /\ app' = AppAfter(IF scall'.ret \in Exceptions THEN app.takes
                     ELSE reloaded(app.takes,
                                   load_project(proj_dir', script_file',
                                                meta_file')),
                     handler, FALSE, take_id)
  /\ UNCHANGED <<playVars, uiVars>>

\* toggle_fav: favorite=not ti.favorite
ToggleFav(take_id) ==
  /\ take_id \in ListedIds
  /\ MenuUpdate(take_id, <<>>,
                <<~app.takes[get_take(app.takes, take_id)].favorite>>, <<>>,
                "toggle_fav")

\* toggle_adopted: adopted=not ti.adopted
ToggleAdopted(take_id) ==
  /\ take_id \in ListedIds
  /\ MenuUpdate(take_id, <<>>, <<>>,
                <<~app.takes[get_take(app.takes, take_id)].adopted>>,
                "toggle_adopted")

\* edit_memo: the dialog accepted with new_memo
EditMemo(take_id, new_memo) ==
  MenuUpdate(take_id, <<new_memo>>, <<>>, <<>>, "edit_memo")

\* delete_take of the context menu, confirmed: the Project is loaded again
\* when storage.delete_take returns True, else a warning.
MenuDeleteTake(take_id) ==
  /\ take_id \in ListedIds
  /\ DeleteTake(take_id)
  /\ app' = AppAfter(IF scall'.ret = "True"
                     THEN reloaded(app.takes,
                                   load_project(proj_dir', script_file',
                                                meta_file'))
                     ELSE app.takes,
                     "delete_take", FALSE, take_id)
  /\ UNCHANGED <<playVars, uiVars>>


\* ------------------------------------------------------ specifications
\* A Project and a Recorder as their constructors leave them.
Init ==
  /\ InitProject /\ InitRecorder /\ InitFormat /\ InitPlayback /\ InitStorage
  /\ InitUi /\ InitApp

NextProject ==
  \/ \E id \in TakeIds, adopted \in BOOLEAN :
       AddTake(id, adopted) /\ UNCHANGED notProjVars
  \/ \E id \in TakeIds, adopted \in BOOLEAN :
       UpdateTakeAdopted(id, adopted) /\ UNCHANGED notProjVars

SpecProject == Init /\ [][NextProject]_vars

NextRecorder ==
  \/ \E op \in Ops : Call(op) /\ UNCHANGED notRecVars
  \/ Acquire /\ UNCHANGED notRecVars
  \/ StartCS /\ UNCHANGED notRecVars
  \/ StreamOpen /\ UNCHANGED notRecVars
  \/ StreamStart /\ UNCHANGED notRecVars
  \/ FailCS /\ UNCHANGED notRecVars
  \/ PauseCS /\ UNCHANGED notRecVars
  \/ ResumeCS /\ UNCHANGED notRecVars
  \/ StopCS /\ UNCHANGED notRecVars
  \/ StreamStop /\ UNCHANGED notRecVars
  \/ StreamClose /\ UNCHANGED notRecVars
  \/ SaveCS /\ UNCHANGED notRecVars
  \/ SaveWrite /\ UNCHANGED notRecVars
  \/ GetCS /\ UNCHANGED notRecVars
  \/ Deliver /\ UNCHANGED notRecVars
  \/ CallbackAcquire /\ UNCHANGED notRecVars
  \/ CallbackCS /\ UNCHANGED notRecVars

SpecRecorder == Init /\ [][NextRecorder]_vars

\* The other components as constructed, and a call of sanitize_for_filename
\* (of get_current_section) with any of the bounded arguments.
InitSanitize ==
  /\ InitProject /\ InitRecorder /\ InitPlayback /\ InitStorage /\ InitUi
  /\ InitApp
  /\ sf \in SanitizeCalls
  /\ existing = <<>>

NextSanitize ==
  \/ Sanitize /\ UNCHANGED notFmtVars
  \/ SanitizeAgain /\ UNCHANGED notFmtVars

SpecSanitize == InitSanitize /\ [][NextSanitize]_vars

InitSection ==
  /\ InitProject /\ InitRecorder /\ InitPlayback /\ InitStorage /\ InitUi
  /\ InitApp
  /\ sf \in SectionCalls
  /\ existing = <<>>

NextSection ==
  \/ GetCurrentSection /\ UNCHANGED notFmtVars

SpecSection == InitSection /\ [][NextSection]_vars

NextSuggest ==
  \/ \E name \in ExistingPool : AddExisting(name) /\ UNCHANGED notFmtVars
  \/ \E script_text \in SuggestScripts :
       SuggestTakeBasename(script_text) /\ UNCHANGED notFmtVars
  \/ AddSuggestion /\ UNCHANGED notFmtVars

SpecSuggest == Init /\ [][NextSuggest]_vars

NextPlayback ==
  \/ \E dur \in 0..MaxDuration : Play(dur) /\ UNCHANGED notPlayVars
  \/ PlayMissing /\ UNCHANGED notPlayVars
  \/ MediaLoaded /\ UNCHANGED notPlayVars
  \/ Tick /\ UNCHANGED notPlayVars
  \/ Pause /\ UNCHANGED notPlayVars
  \/ Stop /\ UNCHANGED notPlayVars
  \/ \E rate \in Rates : SetSpeed(rate) /\ UNCHANGED notPlayVars
  \/ \E ms \in SeekArgs :
       SeekToPositionMs(ms) /\ UNCHANGED notPlayVars

SpecPlayback == Init /\ [][NextPlayback]_vars

NextStorage ==
  \/ CreateProject /\ UNCHANGED notStoVars
  \/ LoadProject /\ UNCHANGED notStoVars
  \/ \E text \in ScriptTexts : SaveScript(text) /\ UNCHANGED notStoVars
  \/ \E src_exists \in BOOLEAN, mf \in MemoFavorite,
        preferred_basename \in PreferredBasenames, base \in SourceNames :
       AddTakeFromFile(src_exists, mf[1], mf[2], preferred_basename, base)
       /\ UNCHANGED notStoVars
  \/ \E take_id \in StorageIds, memo \in Optional(Memos),
        favorite, adopted \in Optional(BOOLEAN) :
       UpdateTakeMeta(take_id, memo, favorite, adopted)
       /\ UNCHANGED notStoVars
  \/ \E take_id \in StorageIds : DeleteTake(take_id) /\ UNCHANGED notStoVars
  \/ \E kind \in ForeignMetaKinds : ReplaceMeta(kind) /\ UNCHANGED notStoVars
  \/ \E f \in wav_files : RemoveWav(f) /\ UNCHANGED notStoVars

SpecStorage == Init /\ [][NextStorage]_vars

\* export_takes, over the projects that adding and deleting takes and losing
\* files or metadata leave on disk.
NextExport ==
  \/ \E src_exists \in BOOLEAN, mf \in MemoFavorite,
        preferred_basename \in PreferredBasenames, base \in SourceNames :
       AddTakeFromFile(src_exists, mf[1], mf[2], preferred_basename, base)
       /\ UNCHANGED notStoVars
  \/ \E take_id \in StorageIds : DeleteTake(take_id) /\ UNCHANGED notStoVars
  \/ \E kind \in ForeignMetaKinds : ReplaceMeta(kind) /\ UNCHANGED notStoVars
  \/ \E f \in wav_files : RemoveWav(f) /\ UNCHANGED notStoVars
  \/ \E take_ids \in ExportIds, use_friendly_names \in BOOLEAN :
       ExportTakes(take_ids, use_friendly_names) /\ UNCHANGED notStoVars

SpecExport == Init /\ [][NextExport]_vars

\* Preferred basenames that sanitize to one name ("a", "a ") or to nothing
\* (" "), and source files with and without the .wav suffix.
AddPreferredBasenames == PreferredBasenames \cup {<<"a", " ">>, <<" ">>}
AddSourceNames == SourceNames \cup {<<"t", ".", "W", "A", "V">>}

\* add_take_from_file with every kind of name, over the take folders the
\* program itself leaves: nothing is changed from outside.
NextAdd ==
  \/ CreateProject /\ UNCHANGED notStoVars
  \/ LoadProject /\ UNCHANGED notStoVars
  \/ \E src_exists \in BOOLEAN, mf \in MemoFavorite,
        preferred_basename \in AddPreferredBasenames,
        base \in AddSourceNames :
       AddTakeFromFile(src_exists, mf[1], mf[2], preferred_basename, base)
       /\ UNCHANGED notStoVars
  \/ \E take_id \in StorageIds : DeleteTake(take_id) /\ UNCHANGED notStoVars

SpecAdd == Init /\ [][NextAdd]_vars

\* update_take_meta, over the take lists that creating the project, adding
\* and deleting takes and losing the metadata leave on disk.
NextUpdate ==
  \/ CreateProject /\ UNCHANGED notStoVars
  \/ \E mf \in MemoFavorite, base \in SourceNames :
       AddTakeFromFile(TRUE, mf[1], mf[2], <<>>, base) /\ UNCHANGED notStoVars
  \/ \E take_id \in StorageIds, memo \in Optional(Memos),
        favorite, adopted \in Optional(BOOLEAN) :
       UpdateTakeMeta(take_id, memo, favorite, adopted)
       /\ UNCHANGED notStoVars
  \/ \E take_id \in StorageIds : DeleteTake(take_id) /\ UNCHANGED notStoVars
  \/ \E kind \in ForeignMetaKinds : ReplaceMeta(kind) /\ UNCHANGED notStoVars

SpecUpdate == Init /\ [][NextUpdate]_vars

\* The handlers of MainWindow that drive playback, and the player itself.
NextUi ==
  \/ \E take_id \in UiTakeIds, stops \in BOOLEAN :
       OnTakeDoubleClicked(take_id, stops) /\ UNCHANGED notUiVars
  \/ \E take_id \in UiTakeIds, stops \in BOOLEAN :
       OnPlayPauseToggle(take_id, stops) /\ UNCHANGED notUiVars
  \/ \E ms \in 0..MaxDuration :
       OnPlaybackSeekRequested(ms) /\ UNCHANGED notUiVars
  \/ OnSeekBackward /\ UNCHANGED notUiVars
  \/ OnSeekForward /\ UNCHANGED notUiVars
  \/ OnPlaybackStop /\ UNCHANGED notUiVars
  \/ ResetPlaybackUi /\ UNCHANGED notUiVars
  \/ OnPlaybackPositionTick /\ UNCHANGED notUiVars
  \/ PlayerLoaded /\ UNCHANGED notUiVars
  \/ PlayerAdvance /\ UNCHANGED notUiVars

SpecUi == Init /\ [][NextUi]_vars

\* The take handlers of MainWindow over the project folder the program
\* itself writes: new and open project, record toggle and stop, and the
\* context menu of a take.
NextApp ==
  \/ OnNewProject /\ UNCHANGED notAppVars
  \/ OnOpenProject /\ UNCHANGED notAppVars
  \/ \E started \in BOOLEAN : OnRecordToggle(started) /\ UNCHANGED notAppVars
  \/ \E saved \in BOOLEAN, preferred_basename \in PreferredBasenames :
       OnRecordStop(saved, preferred_basename) /\ UNCHANGED notAppVars
  \/ \E take_id \in StorageIds : ToggleFav(take_id) /\ UNCHANGED notAppVars
  \/ \E take_id \in StorageIds : ToggleAdopted(take_id) /\ UNCHANGED notAppVars
  \/ \E take_id \in StorageIds, new_memo \in Memos :
       EditMemo(take_id, new_memo) /\ UNCHANGED notAppVars
  \/ \E take_id \in StorageIds : MenuDeleteTake(take_id) /\ UNCHANGED notAppVars

SpecApp == Init /\ [][NextApp]_vars


\* The operations that look a project or a take up, over the projects that
\* adding takes and losing metadata leave on disk.
NextLookup ==
  \/ LoadProject /\ UNCHANGED notStoVars
  \/ \E src_exists \in BOOLEAN, mf \in MemoFavorite,
        preferred_basename \in PreferredBasenames, base \in SourceNames :
       AddTakeFromFile(src_exists, mf[1], mf[2], preferred_basename, base)
       /\ UNCHANGED notStoVars
  \/ \E take_id \in StorageIds, memo \in Optional(Memos),
        favorite, adopted \in Optional(BOOLEAN) :
       UpdateTakeMeta(take_id, memo, favorite, adopted)
       /\ UNCHANGED notStoVars
  \/ \E take_id \in StorageIds : DeleteTake(take_id) /\ UNCHANGED notStoVars
  \/ \E kind \in ForeignMetaKinds : ReplaceMeta(kind) /\ UNCHANGED notStoVars
  \/ \E take_id \in StorageIds, memo \in Memos :
       ProjectUpdateTakeMemo(take_id, memo) /\ UNCHANGED notStoVars
  \/ \E take_id \in StorageIds, favorite \in BOOLEAN :
       ProjectUpdateTakeFavorite(take_id, favorite) /\ UNCHANGED notStoVars
  \/ \E take_id \in StorageIds, adopted \in BOOLEAN :
       ProjectUpdateTakeAdopted(take_id, adopted) /\ UNCHANGED notStoVars

SpecLookup == Init /\ [][NextLookup]_vars

Next ==
  \/ NextProject \/ NextRecorder \/ NextSanitize \/ NextSection
  \/ NextSuggest \/ NextPlayback \/ NextStorage \/ NextExport \/ NextAdd
  \/ NextUpdate \/ NextLookup \/ NextUi \/ NextApp

Spec == Init /\ [][Next]_vars

\* ------------------------------------------------------ claims: Project
UniqueIds(ts) ==
  \A i, j \in 1..Len(ts) : i # j => ts[i].id # ts[j].id

AdoptedCount(ts) == Cardinality({i \in 1..Len(ts) : ts[i].adopted})

\* C1 as stated: whenever every take handed to add_take had adopted = False,
\* at most one take of Project.takes is adopted, after any update_take_adopted
\* calls. (add_take accepts a second take with an id already in the list, and
\* update_take_adopted(id, True) then adopts both.)
C1_AtMostOneAdopted_AnyIds ==
  ~added_adopted => AdoptedCount(takes) <= 1

\* C1, amended: whenever every take handed to add_take had adopted = False and
\* the ids of the takes are pairwise distinct, at most one take of
\* Project.takes is adopted, after any update_take_adopted calls.
C1_AtMostOneAdopted ==
  (~added_adopted /\ UniqueIds(takes)) => AdoptedCount(takes) <= 1

\* C1 witness: with distinct ids, update_take_adopted(A, True) has just moved
\* the adoption from another take to A.
C1_Witness ==
  /\ ~added_adopted
  /\ UniqueIds(takes)
  /\ Len(takes) = MaxTakes
  /\ pcall.op = "update_take_adopted"
  /\ pcall.flag
  /\ pcall.ret
  /\ AdoptedCount(pcall.before) = 1
  /\ pcall.before[get_adopted_take(pcall.before)].id # pcall.id
  /\ AdoptedCount(takes) = 1

\* C2: update_take_adopted(A, True) on an existing take A, while a take B with
\* another id is adopted, returns True, sets A.adopted, clears B.adopted, and
\* get_adopted_take() is then A; update_take_adopted(A, False) on an existing
\* take clears A's flag and leaves every other take as it was.
C2_AdoptSwitchesAndClearIsLocal ==
  LET before == pcall.before
      a == get_take(before, pcall.id)
  IN  (pcall.op = "update_take_adopted" /\ a # 0) =>
        /\ pcall.ret
        /\ Len(takes) = Len(before)
        /\ \A i \in 1..Len(takes) : takes[i].id = before[i].id
        /\ pcall.flag =>
             /\ takes[a].adopted
             /\ \A b \in 1..Len(before) :
                  (before[b].adopted /\ before[b].id # pcall.id)
                    => ~takes[b].adopted
             /\ get_adopted_take(takes) = a
        /\ ~pcall.flag =>
             /\ ~takes[a].adopted
             /\ \A j \in 1..Len(takes) : j # a => takes[j] = before[j]

\* C2 witness: B was adopted, and update_take_adopted(A, True) for another
\* existing take A has just returned.
C2_Witness ==
  /\ pcall.op = "update_take_adopted"
  /\ pcall.flag
  /\ get_take(pcall.before, pcall.id) # 0
  /\ \E b \in 1..Len(pcall.before) :
       pcall.before[b].adopted /\ pcall.before[b].id # pcall.id
  /\ takes[get_take(takes, pcall.id)].adopted

\* ----------------------------------------------------- claims: Recorder
IsPrefix(s, t) == Len(s) <= Len(t) /\ \A i \in 1..Len(s) : s[i] = t[i]

NoActiveStream == \A s \in 1..Len(streams) : streams[s] # "active"

\* The control thread has returned from the call recorded in `call`.
ReturnedFrom(op) == pc = "idle" /\ call.op = op

\* C3: every step of a start() call made while is_recording is set (Recording
\* or RecordingPaused) leaves is_recording, is_paused, the buffer, the held
\* stream and the set of constructed streams as they are, and the call
\* returns False from its locked block.
C3_StartWhileRecordingChangesNothing ==
  [][(/\ call'.op = "start"
      /\ pc' # pc
      /\ pc \in {"idle", "start_lock", "start_cs"}
      /\ is_recording)
     => /\ UNCHANGED <<is_recording, is_paused, buffer, stream, streams>>
        /\ pc' \in {"start_lock", "start_cs", "idle"}
        /\ pc' = "idle" => call'.ret = "false"]_vars

\* C3 witness: start() called in RecordingPaused with blocks in the buffer
\* has returned False.
C3_Witness ==
  /\ ReturnedFrom("start")
  /\ call.ret = "false"
  /\ call.from = "RecordingPaused"
  /\ buffer # <<>>

\* C4: the buffer grows only by the callback appending its block while it
\* holds the lock with the recorder in Recording, and that block was not
\* delivered while the recorder was Idle or RecordingPaused; a callback that
\* holds the lock in any other state leaves the buffer as it is.
C4_AppendOnlyInRecording ==
  [][/\ Len(buffer') > Len(buffer)
          => /\ cb = "locked"
             /\ lock = "cb"
             /\ RecState = "Recording"
             /\ cb_at \notin {"Idle", "RecordingPaused"}
             /\ buffer' = Append(buffer, cb_block)
     /\ (cb = "locked" /\ cb' = "idle" /\ RecState # "Recording")
          => buffer' = buffer]_vars

\* C4 witness: blocks were accepted, then one delivered after pause() set
\* is_paused was dropped by the callback.
C4_Witness ==
  /\ cb = "idle"
  /\ cb_at = "RecordingPaused"
  /\ buffer # <<>>
  /\ nblocks - start_n > Len(buffer)

\* C5: from the moment pause(), called in Recording, has run its locked block
\* the buffer is what it was then; when pause() returns the recorder is in
\* RecordingPaused, the stream it held is stopped and closed, and no stream
\* is held.
C5_PauseReleasesStreamKeepsBuffer ==
  (call.op = "pause" /\ call.from = "Recording"
     /\ pc \in {"sd_stop", "sd_close", "idle"})
    => /\ buffer = at_pause
       /\ buffer = call.buf
       /\ pc = "idle" =>
            /\ call.ret = "ok"
            /\ RecState = "RecordingPaused"
            /\ stream = 0
            /\ call.strm # 0
            /\ streams[call.strm] = "closed"
            /\ NoActiveStream

\* C5 witness: pause() has returned from Recording with blocks in the buffer.
C5_Witness ==
  /\ ReturnedFrom("pause")
  /\ call.from = "Recording"
  /\ call.ret = "ok"
  /\ buffer # <<>>

\* C6: every step of a resume() call made outside RecordingPaused leaves the
\* flags, the buffer and the streams as they are and the call returns False;
\* resume() called in RecordingPaused that returns True leaves the recorder in
\* Recording holding a newly constructed, started stream, it found the buffer
\* as pause() left it, and the buffer still begins with those blocks.
C6_ResumeOnlyFromPaused ==
  /\ [][(/\ call'.op = "resume"
         /\ pc' # pc
         /\ pc \in {"idle", "resume_lock", "resume_cs"}
         /\ RecState # "RecordingPaused")
        => /\ UNCHANGED <<is_recording, is_paused, buffer, stream, streams>>
           /\ pc' \in {"resume_lock", "resume_cs", "idle"}
           /\ pc' = "idle" => call'.ret = "false"]_vars
  /\ [](ReturnedFrom("resume") =>
          /\ call.ret = "false" <=> call.from # "RecordingPaused"
          /\ call.ret = "true" =>
               /\ RecState = "Recording"
               /\ stream > call.nstreams
               /\ streams[stream] = "active"
               /\ call.buf = at_pause
               /\ IsPrefix(at_pause, buffer))

\* C6 witness: resume() has returned True and a block delivered by the new
\* stream follows the blocks captured before the pause.
C6_Witness ==
  /\ ReturnedFrom("resume")
  /\ call.ret = "true"
  /\ at_pause # <<>>
  /\ Len(buffer) > Len(at_pause)

\* C7: stop() returns without raising, from any state, with the recorder in
\* Idle and no stream held or active; and from the moment stop() ran its
\* locked block until the next start() clears it, the buffer is what it was
\* then, whatever pause/resume/stop/save_to_wav calls follow.
C7_StopLeavesIdleAndKeepsBuffer ==
  /\ at_stop.valid => buffer = at_stop.buf
  /\ ReturnedFrom("stop") =>
       /\ call.ret = "ok"
       /\ RecState = "Idle"
       /\ stream = 0
       /\ NoActiveStream
       /\ at_stop.valid

\* C7 witness: after a stop() that retained blocks, a later resume() has
\* returned and the blocks are still there.
C7_Witness ==
  /\ ReturnedFrom("resume")
  /\ at_stop.valid
  /\ at_stop.buf # <<>>
  /\ is_paused

\* C8: a call in which opening the stream raised ends by raising; after
\* start() raised the recorder is in Idle, after resume() raised it is in
\* RecordingPaused with the buffer as resume() found it; nothing else raises.
C8_OpenFailureRollsBack ==
  pc = "idle" =>
    /\ call.failed <=> call.ret = "raise"
    /\ call.ret = "raise" =>
         /\ call.op \in {"start", "resume"}
         /\ call.op = "start" => RecState = "Idle"
         /\ call.op = "resume" =>
              /\ call.from = "RecordingPaused"
              /\ RecState = "RecordingPaused"
              /\ buffer = call.buf
              /\ buffer = at_pause

\* C8 witness: resume() has raised with blocks in the buffer.
C8_Witness ==
  /\ ReturnedFrom("resume")
  /\ call.ret = "raise"
  /\ buffer # <<>>

\* The k-th sample of the concatenation of blocks of BlockLen samples.
SampleAt(cs, k) == cs[((k - 1) \div BlockLen) + 1][((k - 1) % BlockLen) + 1]

\* C9: the buffer holds blocks delivered since the last start(), each once,
\* in the order of their delivery; a save_to_wav that returns True has
\* written the samples of its copy of the buffer, block after block in that
\* order, and that copy is a prefix of the buffer from then on.
C9_BufferAndFileInDeliveryOrder ==
  /\ \A i \in 1..Len(buffer) :
       \E k \in (start_n + 1)..nblocks : buffer[i] = Block(k)
  /\ \A i, j \in 1..Len(buffer) : i < j => buffer[i][1] < buffer[j][1]
  /\ (pc = "idle" /\ call.op \in {"save_to_wav", "stop_and_save"}
        /\ call.ret = "true")
       => /\ chunks = call.buf
          /\ IsPrefix(chunks, buffer)
          /\ wav.exists
          /\ Len(wav.data) = BlockLen * Len(chunks)
          /\ \A k \in 1..Len(wav.data) : wav.data[k] = SampleAt(chunks, k)
          /\ \A k \in 1..(Len(wav.data) - 1) : wav.data[k] < wav.data[k + 1]

\* C9 witness: save_to_wav called while recording wrote two blocks, captured
\* on both sides of a pause, and a third block has since been appended.
C9_Witness ==
  /\ ReturnedFrom("save_to_wav")
  /\ call.ret = "true"
  /\ Len(chunks) >= 2
  /\ Len(at_pause) = 1
  /\ Len(buffer) > Len(chunks)

\* C10: save_to_wav and stop_and_save return False and leave the file as it
\* was when the buffer they copy is empty, and return True with the file
\* written when it is not; stop_and_save copies the buffer stop() left and
\* leaves the recorder in Idle with no stream.
C10_EmptyBufferSavesNothing ==
  (pc = "idle" /\ call.op \in {"save_to_wav", "stop_and_save"}) =>
    /\ call.buf = <<>> => (call.ret = "false" /\ wav = call.wav0)
    /\ call.buf # <<>> =>
         (call.ret = "true" /\ wav.exists /\ wav.data # <<>> /\ dir_exists)
    /\ (call.op = "save_to_wav" /\ call.from # "Recording")
         => call.buf = buffer
    /\ call.op = "stop_and_save" =>
         /\ call.buf = at_stop.buf
         /\ call.buf = buffer
         /\ RecState = "Idle"
         /\ stream = 0
         /\ NoActiveStream

\* C10 witness: start() then stop_and_save() with no block accepted returned
\* False, and the file an earlier save wrote is as it was.
C10_Witness ==
  /\ ReturnedFrom("stop_and_save")
  /\ call.from = "Recording"
  /\ call.ret = "false"
  /\ wav.exists

\* ------------------------------------------------- claims: ScriptFormat
\* What C17 says of an output out for max_length: none of \ / : * ? " < > |,
\* no whitespace, no leading '.', '_' or space, at most max_length characters.
SafeName(out, max_length) ==
  /\ \A i \in 1..Len(out) : out[i] \notin Forbidden
  /\ out # <<>> => out[1] \notin {".", "_", " "}
  /\ Len(out) <= max_length

\* C17 as stated: for every input and every max_length, sanitizing the output
\* of sanitize_for_filename again returns it unchanged, and every output is
\* free of forbidden characters and whitespace, does not start with '.', '_'
\* or space, and is at most max_length long. (A negative max_length is a slice
\* counted from the end: "aaa" with -1 gives "aa", and again "a".)
C17_SanitizeIdempotentAndSafe_AnyMaxLength ==
  sf.op = "sanitize" =>
    /\ sf.done = 2 => sf.out = sf.text
    /\ sf.done >= 1 => SafeName(sf.out, sf.n)

\* C17, amended: for every input and every max_length >= 0, sanitizing the
\* output of sanitize_for_filename again returns it unchanged, and every
\* output is free of forbidden characters and whitespace, does not start with
\* '.', '_' or space, and is at most max_length long.
C17_SanitizeIdempotentAndSafe ==
  (sf.op = "sanitize" /\ sf.n >= 0) =>
    /\ sf.done = 2 => sf.out = sf.text
    /\ sf.done >= 1 => SafeName(sf.out, sf.n)

\* A name with a forbidden character, longer than max_length, was sanitized to
\* a non-empty name, and that name was sanitized again.
C17_Witness ==
  /\ sf.op = "sanitize" /\ sf.done = 2 /\ sf.n >= 0
  /\ \E i \in 1..Len(sf.names[1]) : sf.names[1][i] \in Forbidden
  /\ Len(sf.names[1]) > sf.n
  /\ sf.out # <<>>

\* The lines of a script, by the 0-based offset of their first character: a
\* line starts at 0 and after every "\n", and ends before the next "\n".
LineStarts(t) == {0} \cup {i \in 1..Len(t) : t[i] = "\n"}

LineEnd(t, o) ==
  LET I == {i \in (o + 1)..Len(t) : t[i] = "\n"}
  IN  IF I = {} THEN Len(t) ELSE (CHOOSE i \in I : \A j \in I : i <= j) - 1

LineAt(t, o) == SubSeq(t, o + 1, LineEnd(t, o))

HeadingStarts(t) == {o \in LineStarts(t) : heading_title(LineAt(t, o)) # <<>>}

\* C18: for a script with a heading line A and a later heading line B (no
\* heading line between them), get_current_section returns A's title for
\* every cursor after the last character of A's line and up to the start of
\* B's line, returns the title of the last heading line for every cursor after
\* that line, and returns the empty string when no heading line starts before
\* the cursor (cursor 0 on a first-line heading included).
C18_SectionIsLastHeadingBeforeCursor ==
  (sf.op = "section" /\ sf.done = 1) =>
    LET t == sf.text
        c == sf.n
        H == HeadingStarts(t)
    IN  /\ \A a, b \in H :
             (a < b /\ (\A o \in H : ~(a < o /\ o < b))
              /\ LineEnd(t, a) <= c /\ c <= b)
             => sf.out = heading_title(LineAt(t, a))
        /\ \A b \in H :
             ((\A o \in H : o <= b) /\ LineEnd(t, b) <= c)
             => sf.out = heading_title(LineAt(t, b))
        /\ (\A o \in H : o >= c) => sf.out = <<>>

\* The script has the heading "# A", a body line and then the heading "## B";
\* the cursor is in the body line and the section found is A.
C18_Witness ==
  /\ sf.op = "section" /\ sf.done = 1
  /\ \E a, b \in HeadingStarts(sf.text) :
       /\ LineAt(sf.text, a) = <<"#", " ", "A">>
       /\ LineAt(sf.text, b) = <<"#", "#", " ", "B">>
       /\ LineEnd(sf.text, a) + 1 < sf.n /\ sf.n < b
  /\ sf.out = <<"A">>

\* The base of a file name (".wav" removed, any case) has the form prefix_NN:
\* it starts with the prefix (any case), an underscore and a digit.
HasPrefixForm(prefix, f) ==
  LET base == IF startswith(lower(slice_from(f, Max(Len(f) - 4, 0))), WavSuffix)
              THEN slice_to(f, -4) ELSE f
  IN  matches_at(prefix, base, 1)

\* The largest NN among the names of the form prefix_NN, 0 if there is none.
LargestNumber(prefix, fs) ==
  LET base(f) == IF startswith(lower(slice_from(f, Max(Len(f) - 4, 0))), WavSuffix)
                 THEN slice_to(f, -4) ELSE f
      Ns == {int(group1(prefix, base(fs[i]), 1)) :
               i \in {j \in 1..Len(fs) : HasPrefixForm(prefix, fs[j])}}
  IN  IF Ns = {} THEN 0 ELSE CHOOSE n \in Ns : \A k \in Ns : k <= n

\* C19: suggest_take_basename returns prefix_(N+1), zero-padded to two digits,
\* where N is the largest number among the existing names of the form
\* prefix_NN (0 if none); the suggestion plus ".wav" equals no existing name,
\* whatever the case; and when the previous suggestion for the same prefix was
\* added to the list, the number suggested now is larger than the previous one.
C19_SuggestNextNumber ==
  sf.op = "suggest" =>
    /\ sf.out = sf.prefix \o <<"_">>
                  \o format_02d(LargestNumber(sf.prefix, sf.names) + 1)
    /\ \A i \in 1..Len(sf.names) :
         lower(sf.names[i]) # lower(sf.out \o WavSuffix)
    /\ sf.num > sf.prev

\* ------------------------------------------------------ claims: Playback
\* C20: a seek_to_position_ms(ms) call made while the engine duration d is
\* positive leaves the engine position at ms when 0 <= ms <= d, at 0 when ms is
\* negative and at d when ms is beyond d; made while the duration is zero
\* (unknown), it leaves the position as it was.
C20_SeekClampsOrNoOp ==
  [][\A ms \in SeekArgs :
       (SeekToPositionMs(ms) /\ UNCHANGED notPlayVars) =>
         position' = IF duration > 0
                     THEN (IF ms < 0 THEN 0 ELSE IF ms > duration THEN duration
                           ELSE ms)
                     ELSE position]_vars

\* A seek beyond the end of a loaded file has left the position at the
\* duration.
C20_Witness ==
  /\ pbcall.op = "seek_to_position_ms"
  /\ duration > 0
  /\ pbcall.ms > duration
  /\ position = duration


\* ------------------------------------------------------- claims: Storage
\* Metadata files the wording "absent, malformed or unreadable" covers: no
\* file, text that is not JSON, a directory in its place, and bytes that are
\* not UTF-8.
UnusableMetaKinds == {"absent", "syntax", "directory", "encoding"}

\* C11: load_project on an existing directory whose metadata file is absent,
\* malformed or unreadable returns a Project with an empty take list and the
\* script text that is on disk; it neither raises nor returns None.
C11_LoadProjectToleratesBadMetadata ==
  (scall.op = "load_project" /\ proj_dir
     /\ meta_file.kind \in UnusableMetaKinds)
    => /\ scall.ret = "Project"
       /\ scall.takes = <<>>
       /\ scall.script_text = (IF script_file.exists THEN script_file.text
                               ELSE "")

\* The take list a fresh load_project(dir) yields in the current state, and in
\* the state a step leads to (<<>> when it yields no Project).
FreshTakes == load_project(proj_dir, script_file, meta_file).takes
FreshTakesAfter == load_project(proj_dir', script_file', meta_file').takes
FreshLoadAfter == load_project(proj_dir', script_file', meta_file').ret

\* C12: when add_take_from_file(dir, wav, memo, favorite) returns the take T,
\* a fresh load_project(dir) yields the takes that were on disk before the
\* call, in their order and unmodified, followed by the one new take T; T has
\* the given memo and favorite, adopted = false and an id no earlier take
\* has, and T's audio file exists in the take directory.
C12_AddTakeAppendsOne ==
  [][\A src_exists \in BOOLEAN, mf \in MemoFavorite,
       preferred_basename \in PreferredBasenames, base \in SourceNames :
       (/\ scall'.op = "add_take_from_file"
        /\ scall'.ret = "TakeInfo"
        /\ AddTakeFromFile(src_exists, mf[1], mf[2], preferred_basename, base)
        /\ UNCHANGED notStoVars)
         => LET T == scall'.take
            IN  /\ FreshLoadAfter = "Project"
                /\ FreshTakesAfter = FreshTakes \o <<T>>
                /\ T.memo = mf[1]
                /\ T.favorite = mf[2]
                /\ T.adopted = FALSE
                /\ \A i \in 1..Len(FreshTakes) : FreshTakes[i].id # T.id
                /\ T.wav_filename \in wav_files']_vars

\* A take with a memo and the favorite flag was added to a project that
\* already had a take, and is the last take on disk.
C12_Witness ==
  /\ scall.op = "add_take_from_file"
  /\ scall.ret = "TakeInfo"
  /\ scall.take.memo = "memo"
  /\ scall.take.favorite
  /\ Len(FreshTakes) >= 2
  /\ FreshTakes[Len(FreshTakes)] = scall.take
  /\ scall.take.wav_filename \in wav_files

\* Whether the audio file of take t is in the take directory now, and after
\* the step.
HasAudio(t) == t.wav_filename \in wav_files
HasAudioAfter(t) == t.wav_filename \in wav_files'

\* C13: when delete_take(dir, id) returns true, the take with that id is
\* absent from a freshly loaded project and its audio file no longer exists;
\* every other take keeps its metadata entry, its place in the order and its
\* audio file; a take whose file was already missing is deleted all the same.
C13_DeleteRemovesOnlyThatTake ==
  [][\A take_id \in StorageIds :
       (/\ scall'.op = "delete_take"
        /\ scall'.ret = "True"
        /\ DeleteTake(take_id)
        /\ UNCHANGED notStoVars)
         => /\ FreshLoadAfter = "Project"
            /\ \A i \in 1..Len(FreshTakesAfter) :
                  FreshTakesAfter[i].id # take_id
            /\ \A i \in 1..Len(FreshTakes) :
                  FreshTakes[i].id = take_id => ~HasAudioAfter(FreshTakes[i])
            /\ FreshTakesAfter
                 = SelectSeq(FreshTakes, LAMBDA t : t.id # take_id)
            /\ \A i \in 1..Len(FreshTakes) :
                  FreshTakes[i].id # take_id
                    => (HasAudioAfter(FreshTakes[i]) <=> HasAudio(FreshTakes[i]))]_vars

\* The same without the audio files of the other takes: what holds of
\* delete_take also when two takes name one file.
C13_DeleteRemovesThatTake ==
  [][\A take_id \in StorageIds :
       (/\ scall'.op = "delete_take"
        /\ scall'.ret = "True"
        /\ DeleteTake(take_id)
        /\ UNCHANGED notStoVars)
         => /\ FreshLoadAfter = "Project"
            /\ \A i \in 1..Len(FreshTakes) :
                  FreshTakes[i].id = take_id => ~HasAudioAfter(FreshTakes[i])
            /\ FreshTakesAfter
                 = SelectSeq(FreshTakes, LAMBDA t : t.id # take_id)
            /\ \A i \in 1..Len(FreshTakes) :
                  (/\ FreshTakes[i].id # take_id
                   /\ \A j \in 1..Len(FreshTakes) :
                         FreshTakes[j].id = take_id
                           => FreshTakes[j].wav_filename
                                # FreshTakes[i].wav_filename)
                    => (HasAudioAfter(FreshTakes[i]) <=> HasAudio(FreshTakes[i]))]_vars

\* The value a field holds after update_take_meta was passed the optional
\* argument arg for it: the argument when given, the stored value otherwise.
PassedOrStored(arg, stored) == IF arg = <<>> THEN stored ELSE arg[1]

\* C14: update_take_meta(dir, id, memo?, favorite?, adopted?) on an existing
\* take changes on disk only the fields passed: an omitted memo, favorite or
\* adopted keeps its stored value; id, wav_filename and created_at of every
\* take stay; no other take changes, except that the adopted flags of the
\* other takes are cleared when adopted = true is passed.
C14_UpdateChangesOnlyPassedFields ==
  [][\A take_id \in StorageIds, memo \in Optional(Memos),
       favorite \in Optional(BOOLEAN), adopted \in Optional(BOOLEAN) :
       (/\ scall'.op = "update_take_meta"
        /\ scall'.ret = "True"
        /\ UpdateTakeMeta(take_id, memo, favorite, adopted)
        /\ UNCHANGED notStoVars)
         => /\ FreshLoadAfter = "Project"
            /\ Len(FreshTakesAfter) = Len(FreshTakes)
            /\ \A i \in 1..Len(FreshTakes) :
                 LET old == FreshTakes[i]
                     new == FreshTakesAfter[i]
                 IN  /\ new.id = old.id
                     /\ new.wav_filename = old.wav_filename
                     /\ new.created_at = old.created_at
                     /\ old.id = take_id
                          => /\ new.memo = PassedOrStored(memo, old.memo)
                             /\ new.favorite
                                  = PassedOrStored(favorite, old.favorite)
                             /\ new.adopted
                                  = PassedOrStored(adopted, old.adopted)
                     /\ old.id # take_id
                          => /\ new.memo = old.memo
                             /\ new.favorite = old.favorite
                             /\ new.adopted = (IF adopted = <<TRUE>> THEN FALSE
                                               ELSE old.adopted)]_vars

\* update_take_meta returned true for a take that now has the memo "memo"
\* without the favorite flag (add_take_from_file stores either both or
\* neither, so one was passed and the other omitted) and is adopted, next to
\* another take that kept its memo and favorite flag.
C14_Witness ==
  /\ scall.op = "update_take_meta"
  /\ scall.ret = "True"
  /\ \E i, j \in 1..Len(FreshTakes) :
       /\ FreshTakes[i].id = scall.id
       /\ FreshTakes[i].memo = "memo"
       /\ ~FreshTakes[i].favorite
       /\ FreshTakes[i].adopted
       /\ j # i
       /\ FreshTakes[j].memo = "memo"
       /\ FreshTakes[j].favorite
       /\ ~FreshTakes[j].adopted

\* A step of update_take_meta or delete_take that did not find its target:
\* the project directory does not exist, or no take on disk has the id.
MissingTargetStep ==
  /\ scall'.op \in {"update_take_meta", "delete_take"}
  /\ \/ ~proj_dir
     \/ \A i \in 1..Len(FreshTakes) : FreshTakes[i].id # scall'.id

\* C15: operations given a missing target report it as a value and change
\* nothing. load_project of a directory that does not exist returns None;
\* update_take_meta and delete_take with a nonexistent project or an unknown
\* take id return false and leave the metadata file and the audio files as
\* they were; Project.update_take_memo / favorite / adopted with an unknown
\* id return false and leave every take as it was.
C15_MissingTargetIsAValue ==
  [][/\ (scall'.op = "load_project" /\ ~proj_dir) => scall'.ret = "None"
     /\ MissingTargetStep
          => /\ scall'.ret = "False"
             /\ meta_file' = meta_file
             /\ wav_files' = wav_files
     /\ (/\ scall'.op \in {"Project.update_take_memo",
                            "Project.update_take_favorite",
                            "Project.update_take_adopted"}
         /\ \A i \in 1..Len(FreshTakes) : FreshTakes[i].id # scall'.id)
          => /\ scall'.ret = "False"
             /\ scall'.takes = FreshTakes]_vars

\* The same for metadata load_project can read: what holds of the operations
\* apart from the exceptions of C11.
C15_MissingTargetIsAValue_ReadableMeta ==
  [][load_project(proj_dir, script_file, meta_file).ret \notin Exceptions
       => /\ (scall'.op = "load_project" /\ ~proj_dir) => scall'.ret = "None"
          /\ MissingTargetStep
               => /\ scall'.ret = "False"
                  /\ meta_file' = meta_file
                  /\ wav_files' = wav_files
          /\ (/\ scall'.op \in {"Project.update_take_memo",
                                 "Project.update_take_favorite",
                                 "Project.update_take_adopted"}
              /\ \A i \in 1..Len(FreshTakes) : FreshTakes[i].id # scall'.id)
               => /\ scall'.ret = "False"
                  /\ scall'.takes = FreshTakes]_vars

\* Whether the requested id resolves to a take whose audio file exists.
Resolves(take_id) ==
  \E i \in 1..Len(FreshTakes) :
    /\ FreshTakes[i].id = take_id
    /\ \A j \in 1..(i - 1) : FreshTakes[j].id # take_id
    /\ HasAudio(FreshTakes[i])

\* The positions (1-based) of the requested ids that resolve, in request
\* order.
RECURSIVE resolving_positions(_, _)
resolving_positions(take_ids, i) ==
  IF i > Len(take_ids) THEN <<>>
  ELSE (IF Resolves(take_ids[i]) THEN <<i>> ELSE <<>>)
         \o resolving_positions(take_ids, i + 1)

\* The file name of the first take on disk with the id.
StoredName(take_id) ==
  FreshTakes[CHOOSE i \in 1..Len(FreshTakes) :
               /\ FreshTakes[i].id = take_id
               /\ \A j \in 1..(i - 1) : FreshTakes[j].id # take_id].wav_filename

\* {project_folder_name}_Take{n}.wav
FriendlyName(n) ==
  ProjectName \o <<"_", "T", "a", "k", "e">> \o str(n) \o WavSuffix

\* C16: export_takes(dir, ids, dest) returns, in request order, exactly one
\* destination path per requested id that resolves to a take whose audio file
\* exists, and skips the others; with use_friendly_names the id at position i
\* (0-based, skipped ids counted) is written as {project}_Take{i+1}.wav; an
\* empty id list returns an empty list, creates dest and copies nothing.
C16_ExportReturnsResolvedInOrder ==
  scall.op = "export_takes"
    => LET pos == resolving_positions(scall.ids, 1)
       IN  /\ scall.ret = "list"
           /\ Len(scall.paths) = Len(pos)
           /\ \A k \in 1..Len(pos) :
                 scall.paths[k]
                   = (IF scall.friendly THEN FriendlyName(pos[k])
                      ELSE StoredName(scall.ids[pos[k]]))
           /\ scall.dest = {scall.paths[k] : k \in 1..Len(scall.paths)}
           /\ scall.ids = <<>>
                => scall.paths = <<>> /\ scall.dest_dir /\ scall.dest = {}

\* The same for metadata load_project can read: what holds of export_takes
\* apart from the exceptions of C11.
C16_ExportReturnsResolvedInOrder_ReadableMeta ==
  (scall.op = "export_takes" /\ scall.ret \notin Exceptions)
    => LET pos == resolving_positions(scall.ids, 1)
       IN  /\ scall.ret = "list"
           /\ Len(scall.paths) = Len(pos)
           /\ \A k \in 1..Len(pos) :
                 scall.paths[k]
                   = (IF scall.friendly THEN FriendlyName(pos[k])
                      ELSE StoredName(scall.ids[pos[k]]))
           /\ scall.dest = {scall.paths[k] : k \in 1..Len(scall.paths)}
           /\ scall.ids = <<>>
                => scall.paths = <<>> /\ scall.dest_dir /\ scall.dest = {}

\* C21: create_project called on a directory that already holds a project
\* does not overwrite it: the take metadata on disk, and so the takes a later
\* load_project sees, are the same after the call as before.
C21_CreateProjectKeepsExisting ==
  [][(/\ scall'.op = "create_project"
      /\ CreateProject
      /\ UNCHANGED notStoVars
      /\ proj_dir
      /\ meta_file.kind = "ok")
       => /\ meta_file' = meta_file
          /\ FreshTakesAfter = FreshTakes]_vars


\* ---------------------------------------------- claims: Recorder, part 2
\* The control thread is at a statement that opens, starts, stops or closes
\* the capture stream, or writes the WAV file.
AtStreamOrFileCall == pc \in {"open", "sstart", "sd_stop", "sd_close", "save_write"}

\* The control thread is inside stream.stop(), which returns only once the
\* callback in progress has returned.
WaitsForStream ==
  /\ pc = "sd_stop"
  /\ stream # 0
  /\ streams[stream] = "active"
  /\ cb # "idle"

\* The callback is at its `with self._lock` and the lock is taken.
CallbackWaitsForLock == cb = "wait" /\ lock # "free"

\* A step of the control thread, or of the callback, that reads or writes the
\* buffer or a flag.
ControlAccess ==
  StartCS \/ PauseCS \/ ResumeCS \/ StopCS \/ FailCS \/ SaveCS \/ GetCS
CallbackAccess == CallbackCS

\* C22: the control thread never holds the lock while it opens, stops or
\* closes the stream or writes the WAV file; so the callback never waits for
\* the lock while the control thread waits for the stream; and every step
\* that reads or writes the buffer, is_recording or is_paused is taken by the
\* thread that holds the lock.
C22_LockNotHeldAcrossStreamOrFile ==
  /\ [](AtStreamOrFileCall => lock # "ctl")
  /\ [](~(WaitsForStream /\ CallbackWaitsForLock))
  /\ [][/\ ControlAccess => lock = "ctl"
        /\ CallbackAccess => lock = "cb"
        /\ (\/ is_recording' # is_recording
            \/ is_paused' # is_paused
            \/ buffer' # buffer) => lock # "free"]_vars

\* stop() has released the lock and is inside stream.stop() while a callback
\* that was handed a block takes the lock.
C22_Witness ==
  /\ pc = "sd_stop"
  /\ stream # 0
  /\ streams[stream] = "active"
  /\ cb = "locked"
  /\ lock = "cb"


\* ----------------------------------------------- claims: Storage, part 2
\* The ids of the takes the metadata on disk marks adopted, now and after the
\* step.
AdoptedOnDisk == {FreshTakes[i].id : i \in {j \in 1..Len(FreshTakes) : FreshTakes[j].adopted}}
AdoptedOnDiskAfter ==
  {FreshTakesAfter[i].id :
     i \in {j \in 1..Len(FreshTakesAfter) : FreshTakesAfter[j].adopted}}

\* The number of takes on disk marked adopted.
NumAdoptedOnDisk ==
  Cardinality({j \in 1..Len(FreshTakes) : FreshTakes[j].adopted})

\* C23: from create_project on, after any sequence of add_take_from_file,
\* update_take_meta (any combination of memo, favorite, adopted) and
\* delete_take, the metadata on disk has at most one take with adopted =
\* true; and after an update_take_meta(id, adopted = true) that returns true,
\* that take is the only adopted one.
C23_AtMostOneAdoptedOnDisk ==
  /\ [](NumAdoptedOnDisk <= 1)
  /\ [][\A take_id \in StorageIds, memo \in Optional(Memos),
          favorite \in Optional(BOOLEAN) :
          (/\ scall'.op = "update_take_meta"
           /\ scall'.ret = "True"
           /\ UpdateTakeMeta(take_id, memo, favorite, <<TRUE>>)
           /\ UNCHANGED notStoVars)
            => AdoptedOnDiskAfter = {take_id}]_vars

\* update_take_meta returned true for the second of two takes, which is now
\* the adopted one, while the first, which carries a memo written by an
\* earlier update, is not.
C23_Witness ==
  /\ scall.op = "update_take_meta"
  /\ scall.ret = "True"
  /\ Len(FreshTakes) = 2
  /\ FreshTakes[2].id = scall.id
  /\ FreshTakes[2].adopted
  /\ ~FreshTakes[1].adopted
  /\ FreshTakes[1].memo = "memo"
  /\ ~FreshTakes[1].favorite

\* The names the claim gives: {sanitized}.wav, the same with a suffix made of
\* the new id, and {id}_{original_basename} (ending in .wav).
PlainName(preferred_basename) ==
  sanitize_for_filename(preferred_basename, PreferredMaxLength) \o WavSuffix
SuffixedName(preferred_basename, take_id) ==
  sanitize_for_filename(preferred_basename, PreferredMaxLength)
    \o <<"_", Uuid8(take_id)>> \o WavSuffix
IdName(base, take_id) == <<UuidStr(take_id), "_">> \o base

\* The file names of the takes in the metadata are pairwise distinct.
DistinctWavFilenames ==
  \A i, j \in 1..Len(FreshTakes) :
    i # j => FreshTakes[i].wav_filename # FreshTakes[j].wav_filename

EngineActive == playbackState \in {"PlayingState", "PausedState"}

\* C25: when the state of the player changes to neither playing nor paused
\* (the source ended, or the stop handler ran), the window stops the position
\* timer, clears _playing_take_id and hides the position marker, and keeps
\* _loaded_take_id and the loaded duration; the player's state decides: a
\* change to paused clears nothing.
C25_StoppedStateClearsPlaying ==
  [][/\ (/\ EngineActive
         /\ playbackState' = "StoppedState"
         /\ ui'.handler \in {"_on_playback_state_changed",
                             "_on_playback_stop"})
          => /\ ~ui'.timer
             /\ ui'.playing_take_id = NoTakeId
             /\ ui'.marker = NoMarker
             /\ ui'.loaded_take_id = ui.loaded_take_id
             /\ ui'.duration_seconds = ui.duration_seconds
     /\ (/\ playbackState = "PlayingState"
         /\ playbackState' = "PausedState")
          => /\ ui'.timer = ui.timer
             /\ ui'.playing_take_id = ui.playing_take_id
             /\ ui'.marker = ui.marker
             /\ ui'.loaded_take_id = ui.loaded_take_id]_vars

\* The source of the loaded take has played to its end: the slot ran, and the
\* take stays loaded with its duration.
C25_Witness ==
  /\ ui.handler = "_on_playback_state_changed"
  /\ playbackState = "StoppedState"
  /\ duration > 0
  /\ position = duration
  /\ ui.playing_take_id = NoTakeId
  /\ ~ui.timer
  /\ ui.loaded_take_id # NoTakeId
  /\ ui.duration_seconds > 0


\* ------------------------------------------ claims: ScriptFormat, part 2
\* The heading lines that start before the cursor.
HeadingStartsBefore(t, c) == {o \in HeadingStarts(t) : o < c}

\* C26 as stated: on the line containing the cursor only the text up to the
\* cursor counts, and the text after the cursor on that line does not, when
\* get_current_section looks for the nearest preceding heading line.
C26_SectionIgnoresTextAfterCursor ==
  (sf.op = "section" /\ sf.done = 1)
    => sf.out = last_heading(splitlines(slice_to(sf.text, sf.n)))

\* C26, amended: the line containing the cursor counts as a whole, the text
\* after the cursor included, when the cursor is past the start of the line,
\* and not at all when the cursor is at its start: the section is the title
\* of the last heading line that starts before the cursor.
C26_SectionUsesWholeCursorLine ==
  (sf.op = "section" /\ sf.done = 1)
    => LET H == HeadingStartsBefore(sf.text, sf.n)
       IN  IF H = {} THEN sf.out = <<>>
           ELSE sf.out
                  = heading_title(LineAt(sf.text,
                                         CHOOSE o \in H : \A x \in H : x <= o))

\* The cursor is inside the marker of the heading line "# A": the text up to
\* the cursor is no heading, and the section found is A.
C26_Witness ==
  /\ sf.op = "section" /\ sf.done = 1
  /\ \E o \in HeadingStarts(sf.text) :
       /\ LineAt(sf.text, o) = <<"#", " ", "A">>
       /\ sf.n = o + 1
       /\ \A x \in HeadingStarts(sf.text) : x >= o
  /\ sf.out = <<"A">>


\* ------------------------------------------- claims: Recorder, part 3
\* C27: in every state reached by start, pause, resume and stop calls, pause
\* and resume called in Idle included, the Recorder is in one of Idle,
\* Recording and RecordingPaused: is_paused is true only when is_recording
\* is.
C27_PausedImpliesRecording ==
  /\ is_paused => is_recording
  /\ RecState \in {"Idle", "Recording", "RecordingPaused"}

\* The capture streams that have been constructed and not closed.
OpenStreams == {s \in 1..Len(streams) : streams[s] # "closed"}

\* C28: after every completed start, pause, resume or stop call, those in
\* which opening or starting the stream raises included, the Recorder holds a
\* stream exactly when it is in Recording, and at most one capture stream is
\* open.
C28_HoldsStreamIffRecording ==
  (pc = "idle" /\ call.op \in {"start", "pause", "resume", "stop"})
    => /\ (stream # 0) <=> (RecState = "Recording")
       /\ Cardinality(OpenStreams) <= 1


\* --------------------------------- claims: MainWindow playback, part 2
\* The handlers of the seek coordination layer: take activation, play/pause
\* toggle, the three seeks, stop, and the slot of the engine's state change.
SeekLayerHandlers ==
  {"_on_take_double_clicked", "_on_play_pause_toggle",
   "_on_playback_seek_requested", "_on_seek_backward", "_on_seek_forward",
   "_on_playback_stop", "_on_playback_state_changed"}

\* C29: after every completed handler of the seek coordination layer,
\* _playing_take_id is set exactly when the engine is playing or paused, it
\* is then the take the user activated last, and the position timer is
\* active only while the engine is playing or paused; activating a take
\* whose file is missing, or while another take plays, is included.
C29_PlayingIdTracksEngine ==
  ui.handler \in SeekLayerHandlers
    => /\ (ui.playing_take_id # NoTakeId) <=> EngineActive
       /\ ui.playing_take_id # NoTakeId
            => ui.playing_take_id = ui.activated
       /\ ui.timer => EngineActive


\* ------------------------------------------- claims: MainWindow takes
\* The take operations of the application.
TakeOperations ==
  {"_on_record_stop", "toggle_fav", "toggle_adopted", "edit_memo",
   "delete_take"}

\* The take list of the on-disk metadata (none without a metadata file).
DiskTakes == IF meta_file.kind = "ok" THEN meta_file.takes ELSE <<>>
DiskTakesAfter == IF meta_file'.kind = "ok" THEN meta_file'.takes ELSE <<>>

\* id, memo, favorite and adopted of each take of a list, in order.
TakeValues(ts) ==
  [i \in 1..Len(ts) |->
     <<ts[i].id, ts[i].memo, ts[i].favorite, ts[i].adopted>>]

\* C30: after every completed take operation of the application (recording
\* stopped, favourite or adopted toggled, memo edited, take deleted) the take
\* list of the in-memory Project equals that of the on-disk metadata, the
\* same ids in the same order with the same memo, favorite and adopted; a
\* stopped recording with a non-empty buffer adds exactly one take to both,
\* and one with an empty buffer adds none to either.
C30_ProjectEqualsDiskMetadata ==
  /\ [](app.handler \in TakeOperations
          => TakeValues(app.takes) = TakeValues(DiskTakes))
  /\ [][(app'.handler = "_on_record_stop" /\ app.is_recording
         /\ ~app'.is_recording)
          => IF app'.saved
             THEN /\ \E t \in {app'.takes[Len(app'.takes)]} :
                       /\ app'.takes = Append(app.takes, t)
                       /\ DiskTakesAfter = Append(DiskTakes, t)
                       /\ t.id = app'.take_id
             ELSE /\ app'.takes = app.takes
                  /\ DiskTakesAfter = DiskTakes]_vars

\* A second recording has been stopped and saved after the first take was
\* adopted and given a memo: both lists hold the two takes.
C30_Witness ==
  /\ app.handler = "_on_record_stop"
  /\ app.saved
  /\ Len(app.takes) = 2
  /\ app.takes[1].adopted
  /\ app.takes[1].memo = "memo"
  /\ app.takes[2].id = app.take_id
  /\ Len(DiskTakes) = 2


====
